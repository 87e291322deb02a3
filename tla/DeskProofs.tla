------------------------------ MODULE DeskProofs ------------------------------
(****************************************************************************)
(* The order of managers, the work schedules and the fan-out of the review  *)
(* inbox: small components whose requests overlap.                          *)
(*                                                                          *)
(* ManagerOrder: for every set of managers, every list and any number of    *)
(* requests, a branch has one leader at most as long as its marks are not   *)
(* muddled.  This needs that a manager has one row, and that the rows a     *)
(* sync has locked stay until it ends.  After sync the listing shows the    *)
(* list, and moving or destroying a row changes the order of no two others. *)
(* These need that ids are handed out one after the other and that          *)
(* sort_orders are numbers: then the rank of a row among the others is its  *)
(* place in the listing.                                                    *)
(*                                                                          *)
(* Schedules: an employee, and a company, has one default schedule.         *)
(*                                                                          *)
(* FanOut: a fan-out of the review inbox is wrong about nobody but the      *)
(* overtaken.                                                               *)
(****************************************************************************)
EXTENDS ManagerOrder, Schedules, FanOut, FiniteSetTheorems, SequenceTheorems,
        WellFoundedInduction, TLAPS

-----------------------------------------------------------------------------
(****************************************************************************)
(* ManagerOrder.                                                            *)
(****************************************************************************)

IsRow(row) ==
    /\ row = [user |-> row.user, primary |-> row.primary, order |-> row.order]
    /\ row.primary \in BOOLEAN

IsRows(rows) == \A i \in DOMAIN rows : IsRow(rows[i])

OneRowEach(rows) == \A i, j \in DOMAIN rows : rows[i].user = rows[j].user => i = j

LeadersIn(rows, S) == {i \in DOMAIN rows : rows[i].primary} \ S

AtMostOne(S) == \A i, j \in S : i = j

LinkInv ==
    /\ IsRows(links)
    /\ OneRowEach(links)
    /\ ~muddled => AtMostOne(LeadersIn(links, Being))

-----------------------------------------------------------------------------
(* What the helpers leave alone.                                            *)

(* From two members that are always the same to a cardinality of at most    *)
(* one.                                                                     *)
LEMMA AtMostOneCardinality ==
    ASSUME NEW S, AtMostOne(S)
    PROVE  Cardinality(S) <= 1
  <1>1. CASE S = {}
    BY <1>1, FS_EmptySet
  <1>2. CASE S # {}
    <2>1. PICK i \in S : TRUE
      BY <1>2
    <2>2. S = {i}
      BY <2>1 DEF AtMostOne
    <2>3. Cardinality(S) = 1
      BY <2>2, FS_Singleton
    <2>4. QED
      BY <2>3
  <1>3. QED
    BY <1>1, <1>2

(* A change of sort_orders is none of users and leaders.                    *)
SameButOrder(rows, new) ==
    /\ DOMAIN new = DOMAIN rows
    /\ IsRows(new)
    /\ \A i \in DOMAIN rows : new[i].user = rows[i].user /\ new[i].primary = rows[i].primary

(* A row with another sort_order is the same row otherwise.                 *)
LEMMA ExceptOrder ==
    ASSUME NEW row, IsRow(row), NEW order
    PROVE  /\ IsRow([row EXCEPT !.order = order])
           /\ [row EXCEPT !.order = order].user = row.user
           /\ [row EXCEPT !.order = order].primary = row.primary
  BY DEF IsRow

(* _normalize changes sort_orders only.                                     *)
LEMMA NormalizedApart ==
    ASSUME NEW rows, NEW S, IsRows(rows)
    PROVE  SameButOrder(rows, Normalized(rows, S))
  <1>1. ASSUME NEW i \in DOMAIN rows
        PROVE  /\ IsRow(Normalized(rows, S)[i])
               /\ Normalized(rows, S)[i].user = rows[i].user
               /\ Normalized(rows, S)[i].primary = rows[i].primary
    <2> DEFINE new == [rows[i] EXCEPT !.order = Rank(rows, S, i)]
    <2>1. Normalized(rows, S)[i] \in {rows[i], new}
      BY DEF Normalized
    <2>2. IsRow(rows[i])
      BY DEF IsRows
    <2>3. IsRow(new) /\ new.user = rows[i].user /\ new.primary = rows[i].primary
      BY <2>2, ExceptOrder
    <2> HIDE DEF new
    <2>4. QED
      BY <2>1, <2>2, <2>3
  <1>2. DOMAIN Normalized(rows, S) = DOMAIN rows
    BY DEF Normalized
  <1>3. QED
    BY <1>1, <1>2 DEF SameButOrder, IsRows

(* reorder and move_to change sort_orders only.                             *)
LEMMA NumberedApart ==
    ASSUME NEW rows, NEW ids, IsRows(rows)
    PROVE  SameButOrder(rows, Numbered(rows, ids))
  <1>1. ASSUME NEW i \in DOMAIN rows
        PROVE  /\ IsRow(Numbered(rows, ids)[i])
               /\ Numbered(rows, ids)[i].user = rows[i].user
               /\ Numbered(rows, ids)[i].primary = rows[i].primary
    <2> DEFINE new == [rows[i] EXCEPT !.order = PlaceIn(ids, i) - 1]
    <2>1. Numbered(rows, ids)[i] \in {rows[i], new}
      BY DEF Numbered
    <2>2. IsRow(rows[i])
      BY DEF IsRows
    <2>3. IsRow(new) /\ new.user = rows[i].user /\ new.primary = rows[i].primary
      BY <2>2, ExceptOrder
    <2> HIDE DEF new
    <2>4. QED
      BY <2>1, <2>2, <2>3
  <1>2. DOMAIN Numbered(rows, ids) = DOMAIN rows
    BY DEF Numbered
  <1>3. QED
    BY <1>1, <1>2 DEF SameButOrder, IsRows

(* Two rows exchange their sort_orders only.                                *)
LEMMA SwapApart ==
    ASSUME NEW i, NEW j, IsRows(links), Swap(i, j)
    PROVE  SameButOrder(links, links')
  <1>1. DOMAIN links' = DOMAIN links
    BY DEF Swap
  <1>2. ASSUME NEW k \in DOMAIN links
        PROVE  /\ IsRow(links'[k])
               /\ links'[k].user = links[k].user
               /\ links'[k].primary = links[k].primary
    <2> DEFINE first == [links[k] EXCEPT !.order = links[j].order]
               second == [links[k] EXCEPT !.order = links[i].order]
               both == [first EXCEPT !.order = links[i].order]
    <2>1. links'[k] \in {links[k], first, second, both}
      BY DEF Swap
    <2>2. IsRow(links[k])
      BY DEF IsRows
    <2>3. IsRow(first) /\ first.user = links[k].user /\ first.primary = links[k].primary
      BY <2>2, ExceptOrder
    <2>4. IsRow(second) /\ second.user = links[k].user /\ second.primary = links[k].primary
      BY <2>2, ExceptOrder
    <2> HIDE DEF first, second
    <2>5. IsRow(both) /\ both.user = links[k].user /\ both.primary = links[k].primary
      BY <2>3, ExceptOrder
    <2> HIDE DEF both
    <2>6. QED
      BY <2>1, <2>2, <2>3, <2>4, <2>5
  <1>3. QED
    BY <1>1, <1>2 DEF SameButOrder, IsRows

(* Clearing marks does nothing else.                                        *)
LEMMA ClearedRows ==
    ASSUME NEW rows, NEW S, IsRows(rows)
    PROVE  /\ DOMAIN Cleared(rows, S) = DOMAIN rows
           /\ IsRows(Cleared(rows, S))
           /\ \A i \in DOMAIN rows :
                /\ Cleared(rows, S)[i].user = rows[i].user
                /\ Cleared(rows, S)[i].order = rows[i].order
                /\ Cleared(rows, S)[i].primary => rows[i].primary /\ i \notin S
  <1> DEFINE new == Cleared(rows, S)
  <1>1. DOMAIN new = DOMAIN rows
    BY DEF Cleared
  <1>2. ASSUME NEW i \in DOMAIN rows
        PROVE  /\ IsRow(new[i]) /\ new[i].user = rows[i].user /\ new[i].order = rows[i].order
               /\ new[i].primary => rows[i].primary /\ i \notin S
    <2>1. IsRow(rows[i])
      BY DEF IsRows
    <2>2. CASE i \notin S
      <3>1. new[i] = rows[i]
        BY <2>2 DEF Cleared
      <3>2. QED
        BY <2>1, <2>2, <3>1
    <2>3. CASE i \in S
      <3>1. new[i] = [rows[i] EXCEPT !.primary = FALSE]
        BY <2>3 DEF Cleared
      <3>2. QED
        BY <2>1, <3>1 DEF IsRow
    <2>4. QED
      BY <2>2, <2>3
  <1>3. QED
    BY <1>1, <1>2 DEF IsRows

-----------------------------------------------------------------------------
(****************************************************************************)
(* ManagerOrder: the sort_orders.                                           *)
(****************************************************************************)

(* The rows of one branch as the database has them: finitely many, with     *)
(* numbers for ids and sort_orders.                                         *)
Sortable(rows) ==
    /\ IsFiniteSet(DOMAIN rows)
    /\ DOMAIN rows \subseteq Nat
    /\ \A i \in DOMAIN rows : rows[i].order \in Nat

(* The rank of a row tells where it stands among the others.                *)
LEMMA RankGrows ==
    ASSUME NEW rows, Sortable(rows), NEW S \in SUBSET DOMAIN rows, NEW i \in S, NEW j \in S
    PROVE  /\ IsFiniteSet(S)
           /\ Rank(rows, S, i) \in 0 .. Cardinality(S) - 1
           /\ Before(rows, i, j) <=> Rank(rows, S, i) < Rank(rows, S, j)
           /\ Rank(rows, S, i) = Rank(rows, S, j) => i = j
  <1> DEFINE below(k) == {l \in S : Before(rows, l, k)}
  <1>1. IsFiniteSet(S)
    BY FS_Subset DEF Sortable
  <1>2. \A k \in S : k \in Nat /\ rows[k].order \in Nat
    BY DEF Sortable
  <1>3. \A k \in S : IsFiniteSet(below(k)) /\ Cardinality(below(k)) \in Nat
    BY <1>1, FS_Subset, FS_CardinalityType
  <1>4. ASSUME NEW k \in S, NEW l \in S, Before(rows, k, l)
        PROVE  Rank(rows, S, k) < Rank(rows, S, l)
    <2>1. below(k) \subseteq below(l) /\ k \in below(l) /\ k \notin below(k)
      BY <1>2, <1>4 DEF Before
    <2> HIDE DEF below
    <2>2. below(k) # below(l) /\ below(k) \in SUBSET below(l)
      BY <2>1
    <2>3. Cardinality(below(k)) <= Cardinality(below(l)) /\ Cardinality(below(k)) # Cardinality(below(l))
      BY <1>3, <2>2, FS_Subset
    <2>4. QED
      BY <1>3, <2>3 DEF Rank, below
  <1>5. Rank(rows, S, i) \in 0 .. Cardinality(S) - 1
    <2>1. below(i) \in SUBSET S /\ i \notin below(i)
      BY <1>2 DEF Before
    <2> HIDE DEF below
    <2>2. Cardinality(below(i)) <= Cardinality(S) /\ Cardinality(below(i)) # Cardinality(S)
      BY <1>1, <2>1, FS_Subset
    <2>3. Cardinality(S) \in Nat
      BY <1>1, FS_CardinalityType
    <2>4. QED
      BY <1>3, <2>2, <2>3 DEF Rank, below
  <1>6. Before(rows, i, j) \/ Before(rows, j, i) \/ i = j
    BY <1>2 DEF Before
  <1>7. Rank(rows, S, i) \in Nat /\ Rank(rows, S, j) \in Nat
    BY <1>3 DEF Rank
  <1>8. Before(rows, i, j) => Rank(rows, S, i) < Rank(rows, S, j)
    BY <1>4
  <1>9. Before(rows, j, i) => Rank(rows, S, j) < Rank(rows, S, i)
    BY <1>4
  <1>10. QED
    BY <1>1, <1>5, <1>6, <1>7, <1>8, <1>9

(* The listing has every row once, at the place of its rank.                *)
LEMMA ListingPlaces ==
    ASSUME NEW rows, Sortable(rows), NEW S \in SUBSET DOMAIN rows
    PROVE  LET L == Listing(rows, S)
           IN  /\ L \in Seq(S) /\ Len(L) = Cardinality(S) /\ Cardinality(S) \in Nat
               /\ DOMAIN L = 1 .. Cardinality(S)
               /\ \A k \in 1 .. Len(L) : L[k] \in S /\ Rank(rows, S, L[k]) = k - 1
               /\ \A i \in S : /\ Rank(rows, S, i) + 1 \in 1 .. Len(L)
                               /\ L[Rank(rows, S, i) + 1] = i
  <1> DEFINE n == Cardinality(S)
             L == Listing(rows, S)
             rank == [i \in S |-> Rank(rows, S, i)]
  <1>1. IsFiniteSet(S) /\ n \in Nat
    BY FS_Subset, FS_CardinalityType DEF Sortable
  <1>2. /\ \A i \in S : Rank(rows, S, i) \in 0 .. n - 1
        /\ \A i, j \in S : Rank(rows, S, i) = Rank(rows, S, j) => i = j
    BY RankGrows
  <1>3. rank \in Injection(S, 0 .. n - 1)
    BY <1>2 DEF Injection, IsInjective
  <1>4. IsFiniteSet(0 .. n - 1) /\ Cardinality(0 .. n - 1) = n
    BY <1>1, FS_Interval
  <1> HIDE DEF rank
  <1>5. rank \in Surjection(S, 0 .. n - 1)
    BY <1>1, <1>3, <1>4, FS_Injection
  <1>6. \A k \in 0 .. n - 1 : \E i \in S : Rank(rows, S, i) = k
    BY <1>5 DEF Surjection, rank
  <1>7. \A k \in 1 .. n : \E i \in S : Rank(rows, S, i) = k - 1
    BY <1>1, <1>6
  <1>8. L = [k \in 1 .. n |-> CHOOSE i \in S : Rank(rows, S, i) = k - 1]
    BY DEF Listing
  <1> HIDE DEF L
  <1>9. \A k \in 1 .. n : L[k] \in S /\ Rank(rows, S, L[k]) = k - 1
    BY <1>7, <1>8
  <1>10. L \in Seq(S) /\ Len(L) = n /\ DOMAIN L = 1 .. n
    BY <1>1, <1>8, <1>9
  <1>11. \A i \in S : Rank(rows, S, i) + 1 \in 1 .. n /\ L[Rank(rows, S, i) + 1] = i
    BY <1>1, <1>2, <1>9
  <1>12. QED
    BY <1>1, <1>9, <1>10, <1>11 DEF L

(* Looking up a member of a list without repetition.                        *)
LEMMA FoundInList ==
    ASSUME NEW T, NEW s \in Seq(T), NEW k \in 1 .. Len(s), \A l \in 1 .. Len(s) : s[l] = s[k] => l = k
    PROVE  PlaceIn(s, s[k]) = k
  <1>1. {l \in 1 .. Len(s) : s[l] = s[k]} = {k}
    OBVIOUS
  <1>2. Min({k}) = k
    BY DEF Min
  <1>3. PlaceIn(s, s[k]) = Min({l \in 1 .. Len(s) : s[l] = s[k]})
    BY <1>1 DEF PlaceIn, SelectInSeq
  <1>4. QED
    BY <1>1, <1>2, <1>3

(* Two lists one after the other.                                           *)
LEMMA JoinedPlaces ==
    ASSUME NEW T, NEW s \in Seq(T), NEW t \in Seq(T)
    PROVE  /\ s \o t \in Seq(T) /\ Len(s \o t) = Len(s) + Len(t)
           /\ \A k \in 1 .. Len(s) : (s \o t)[k] = s[k]
           /\ \A k \in Len(s) + 1 .. Len(s) + Len(t) : (s \o t)[k] = t[k - Len(s)]
  <1>1. s \o t \in Seq(T) /\ Len(s \o t) = Len(s) + Len(t)
    BY ConcatProperties
  <1>2. \A k \in 1 .. Len(s) + Len(t) : (s \o t)[k] = IF k <= Len(s) THEN s[k] ELSE t[k - Len(s)]
    BY ConcatProperties
  <1>3. \A k \in 1 .. Len(s) : k \in 1 .. Len(s) + Len(t) /\ k <= Len(s)
    OBVIOUS
  <1>4. \A k \in Len(s) + 1 .. Len(s) + Len(t) : k \in 1 .. Len(s) + Len(t) /\ ~(k <= Len(s))
    OBVIOUS
  <1>5. QED
    BY <1>1, <1>2, <1>3, <1>4

(* A part of a list.                                                        *)
LEMMA PartPlaces ==
    ASSUME NEW T, NEW s \in Seq(T), NEW m \in Nat, NEW n \in Nat, m <= n, n <= Len(s)
    PROVE  /\ SubSeq(s, m + 1, n) \in Seq(T) /\ Len(SubSeq(s, m + 1, n)) = n - m
           /\ \A k \in 1 .. n - m : SubSeq(s, m + 1, n)[k] = s[m + k]
  <1>1. \A k \in m + 1 .. n : s[k] \in T
    OBVIOUS
  <1>2. QED
    BY <1>1, SubSeqProperties

(* The list after a row has been taken out and put in at another place.     *)
LEMMA MovedPlaces ==
    ASSUME NEW T, NEW s \in Seq(T), NEW from \in 1 .. Len(s), NEW target \in 1 .. Len(s)
    PROVE  LET M == Moved(s, from, target)
           IN  /\ M \in Seq(T) /\ Len(M) = Len(s)
               /\ \A k \in 1 .. Len(s) :
                    M[k] = IF k < target THEN IF k < from THEN s[k] ELSE s[k + 1]
                           ELSE IF k = target THEN s[from]
                           ELSE IF k - 1 < from THEN s[k - 1] ELSE s[k]
  <1> DEFINE n == Len(s)
             a == SubSeq(s, 1, from - 1)
             b == SubSeq(s, from + 1, n)
             r == RemoveAt(s, from)
             c == SubSeq(r, 1, target - 1)
             d == SubSeq(r, target, Len(r))
             e == <<s[from]>>
  <1>0. /\ n \in Nat /\ from \in 1 .. n /\ target \in 1 .. n
        /\ from - 1 \in Nat /\ n - from \in Nat /\ target - 1 \in Nat /\ n - target \in Nat /\ n - 1 \in Nat
        /\ target \in Nat /\ from \in Nat /\ s[from] \in T
    OBVIOUS
  <1>1. a \in Seq(T) /\ Len(a) = from - 1 /\ \A k \in 1 .. from - 1 : a[k] = s[k]
    <2>1. \A k \in 1 .. from - 1 : s[k] \in T
      OBVIOUS
    <2>2. QED
      BY <2>1, <1>0, SubSeqProperties
  <1>2. b \in Seq(T) /\ Len(b) = n - from /\ \A k \in 1 .. n - from : b[k] = s[from + k]
    BY <1>0, PartPlaces
  <1>3. r = a \o b
    BY Zenon DEF RemoveAt
  <1>4. /\ r \in Seq(T) /\ Len(r) = n - 1
        /\ \A k \in 1 .. from - 1 : r[k] = s[k]
        /\ \A k \in from .. n - 1 : r[k] = s[k + 1]
    <2> HIDE DEF a, b, r, n
    <2>0. /\ a \o b \in Seq(T) /\ Len(a \o b) = Len(a) + Len(b)
          /\ \A k \in 1 .. Len(a) : (a \o b)[k] = a[k]
          /\ \A k \in Len(a) + 1 .. Len(a) + Len(b) : (a \o b)[k] = b[k - Len(a)]
      BY Zenon, <1>1, <1>2, JoinedPlaces
    <2>1. /\ a \o b \in Seq(T) /\ Len(a \o b) = from - 1 + (n - from)
          /\ \A k \in 1 .. from - 1 : (a \o b)[k] = a[k]
          /\ \A k \in from - 1 + 1 .. from - 1 + (n - from) : (a \o b)[k] = b[k - (from - 1)]
      BY <1>1, <1>2, <2>0
    <2>2. ASSUME NEW k \in from .. n - 1
          PROVE  (a \o b)[k] = s[k + 1]
      <3>1. k \in from - 1 + 1 .. from - 1 + (n - from)
        BY <1>0
      <3>2. k - (from - 1) \in 1 .. n - from /\ from + (k - (from - 1)) = k + 1
        BY <1>0
      <3>3. (a \o b)[k] = b[k - (from - 1)]
        BY <2>1, <3>1
      <3>4. b[k - (from - 1)] = s[from + (k - (from - 1))]
        BY <1>2, <3>2
      <3>5. QED
        BY <3>2, <3>3, <3>4
    <2>3. from - 1 + (n - from) = n - 1
      BY <1>0
    <2>4. QED
      BY <1>1, <1>3, <2>1, <2>2, <2>3
  <1> HIDE DEF a, b, r
  <1>5. \A k \in 1 .. n - 1 : r[k] \in T
    BY <1>0, <1>4
  <1>6. c \in Seq(T) /\ Len(c) = target - 1 /\ \A k \in 1 .. target - 1 : c[k] = r[k]
    BY <1>0, <1>4, <1>5, SubSeqProperties
  <1>7. d \in Seq(T) /\ Len(d) = n - target /\ \A k \in 1 .. n - target : d[k] = r[target + k - 1]
    BY <1>0, <1>4, <1>5, SubSeqProperties
  <1>8. Moved(s, from, target) = c \o e \o d
    BY Zenon DEF Moved, InsertAt, r
  <1>9. e \in Seq(T) /\ Len(e) = 1 /\ e[1] = s[from]
    BY <1>0
  <1> HIDE DEF c, d, e, n
  <1>10. /\ c \o e \in Seq(T) /\ Len(c \o e) = target
         /\ \A k \in 1 .. target - 1 : (c \o e)[k] = r[k]
         /\ (c \o e)[target] = s[from]
    <2>0. /\ c \o e \in Seq(T) /\ Len(c \o e) = Len(c) + Len(e)
          /\ \A k \in 1 .. Len(c) : (c \o e)[k] = c[k]
          /\ \A k \in Len(c) + 1 .. Len(c) + Len(e) : (c \o e)[k] = e[k - Len(c)]
      BY Zenon, <1>6, <1>9, JoinedPlaces
    <2>1. /\ c \o e \in Seq(T) /\ Len(c \o e) = target - 1 + 1
          /\ \A k \in 1 .. target - 1 : (c \o e)[k] = c[k]
          /\ \A k \in target - 1 + 1 .. target - 1 + 1 : (c \o e)[k] = e[k - (target - 1)]
      BY <1>6, <1>9, <2>0
    <2>2. target - 1 + 1 = target /\ target - (target - 1) = 1 /\ target \in target - 1 + 1 .. target - 1 + 1
      BY <1>0
    <2>3. (c \o e)[target] = e[target - (target - 1)]
      BY <2>1, <2>2
    <2>4. QED
      BY <1>6, <1>9, <2>1, <2>2, <2>3
  <1> DEFINE f == c \o e
  <1>11. /\ f \o d \in Seq(T) /\ Len(f \o d) = n
         /\ \A k \in 1 .. target - 1 : (f \o d)[k] = r[k]
         /\ (f \o d)[target] = s[from]
         /\ \A k \in target + 1 .. n : (f \o d)[k] = r[k - 1]
    <2>1. /\ f \in Seq(T) /\ Len(f) = target
          /\ \A k \in 1 .. target - 1 : f[k] = r[k]
          /\ f[target] = s[from]
      BY <1>10
    <2> HIDE DEF f
    <2>2. /\ f \o d \in Seq(T) /\ Len(f \o d) = Len(f) + Len(d)
          /\ \A k \in 1 .. Len(f) : (f \o d)[k] = f[k]
          /\ \A k \in Len(f) + 1 .. Len(f) + Len(d) : (f \o d)[k] = d[k - Len(f)]
      BY Zenon, <1>7, <2>1, JoinedPlaces
    <2>3. target + (n - target) = n /\ target \in 1 .. target /\ \A k \in 1 .. target - 1 : k \in 1 .. target
      BY <1>0
    <2>4. \A k \in target + 1 .. n : k - target \in 1 .. n - target /\ target + (k - target) - 1 = k - 1
      BY <1>0
    <2>5. \A k \in target + 1 .. n : d[k - target] = r[k - 1]
      BY <1>7, <2>4
    <2>6. QED
      BY <1>7, <2>1, <2>2, <2>3, <2>5
  <1> HIDE DEF f
  <1>12. ASSUME NEW k \in 1 .. n
         PROVE  (f \o d)[k] = IF k < target THEN IF k < from THEN s[k] ELSE s[k + 1]
                                   ELSE IF k = target THEN s[from]
                                   ELSE IF k - 1 < from THEN s[k - 1] ELSE s[k]
    <2>1. CASE k < target
      <3>1. k \in 1 .. target - 1 /\ k \in 1 .. n - 1
        BY <1>0, <2>1
      <3>2. IF k < from THEN r[k] = s[k] ELSE r[k] = s[k + 1]
        BY <1>0, <1>4, <3>1
      <3>3. (f \o d)[k] = r[k]
        BY <1>11, <3>1
      <3>4. QED
        BY <2>1, <3>2, <3>3
    <2>2. CASE k = target
      BY <1>0, <1>11, <2>2
    <2>3. CASE k > target
      <3>1. k \in target + 1 .. n /\ k - 1 \in 1 .. n - 1 /\ k - 1 + 1 = k
        BY <1>0, <2>3
      <3>2. IF k - 1 < from THEN r[k - 1] = s[k - 1] ELSE r[k - 1] = s[k - 1 + 1]
        BY <1>0, <1>4, <3>1
      <3>3. (f \o d)[k] = r[k - 1]
        BY <1>11, <3>1
      <3>4. ~(k < target) /\ k # target
        BY <1>0, <2>3
      <3>5. QED
        BY <3>1, <3>2, <3>3, <3>4
    <2>4. k < target \/ k = target \/ k > target
      BY <1>0
    <2>5. QED
      BY <2>1, <2>2, <2>3, <2>4
  <1>13. QED
    BY <1>8, <1>11, <1>12 DEF n, f
-----------------------------------------------------------------------------
(* What the helpers do to the sort_orders.                                  *)

(* A set of numbers has a smallest one.                                     *)
LEMMA Smallest ==
    ASSUME NEW S \in SUBSET Nat, S # {}
    PROVE  Min(S) \in S /\ \A n \in S : Min(S) <= n
  <1>1. PICK m \in S : \A n \in S : <<n, m>> \notin OpToRel(<, Nat)
    BY WFMin, NatLessThanWellFounded
  <1>2. ASSUME NEW n \in S PROVE m <= n
    <2>1. ~(n < m)
      BY <1>1 DEF OpToRel
    <2>2. QED
      BY <2>1
  <1>3. QED
    BY <1>2 DEF Min

(* A finite set of numbers has a largest one.                               *)
LEMMA Largest ==
    ASSUME NEW S \in SUBSET Nat, S # {}, IsFiniteSet(S)
    PROVE  Max(S) \in S
  <1> DEFINE above(m) == {l \in S : l > m}
             size(m) == Cardinality(above(m))
             sizes == {size(m) : m \in S}
  <1>1. \A m \in S : above(m) \subseteq S /\ IsFiniteSet(above(m)) /\ size(m) \in Nat
    BY FS_Subset, FS_CardinalityType
  <1>2. sizes \in SUBSET Nat /\ sizes # {}
    BY <1>1
  <1>3. PICK m \in S : \A n \in S : size(m) <= size(n)
    <2>1. Min(sizes) \in sizes /\ \A k \in sizes : Min(sizes) <= k
      BY <1>2, Smallest
    <2>2. PICK m \in S : size(m) = Min(sizes)
      BY <2>1
    <2>3. \A n \in S : size(n) \in sizes
      OBVIOUS
    <2> HIDE DEF size, sizes
    <2>4. QED
      BY <2>1, <2>2, <2>3
  <1>4. ASSUME NEW n \in S, n > m PROVE FALSE
    <2>0. m \in Nat /\ n \in Nat /\ \A k \in S : k \in Nat /\ (k > n => k > m)
      BY <1>4
    <2>1. above(n) \subseteq above(m) /\ n \in above(m) /\ n \notin above(n)
      <3>1. n \in above(m)
        BY <1>4
      <3>2. ~(n > n)
        BY <2>0
      <3>3. above(n) \subseteq above(m)
        BY <2>0
      <3>4. QED
        BY <3>1, <3>2, <3>3
    <2>2. above(n) # above(m) /\ above(n) \in SUBSET above(m)
      BY <2>1
    <2> HIDE DEF above
    <2>3. Cardinality(above(n)) <= Cardinality(above(m)) /\ Cardinality(above(n)) # Cardinality(above(m))
      BY <1>1, <2>2, FS_Subset
    <2>4. QED
      BY <1>1, <1>3, <2>3
  <1>5. \A n \in S : m >= n
    BY <1>4
  <1>6. QED
    BY <1>5 DEF Max

(* Where a list has something, if at all.                                   *)
LEMMA PlaceInList ==
    ASSUME NEW T, NEW s \in Seq(T), NEW x
    PROVE  LET p == PlaceIn(s, x) IN
           /\ p \in 0 .. Len(s)
           /\ p # 0 => s[p] = x
           /\ (\E k \in 1 .. Len(s) : s[k] = x) => p # 0
  <1> DEFINE found == {k \in 1 .. Len(s) : s[k] = x}
             p == PlaceIn(s, x)
  <1>1. p = IF found # {} THEN Min(found) ELSE 0
    BY DEF PlaceIn, SelectInSeq
  <1>2. found \in SUBSET Nat
    OBVIOUS
  <1>3. found # {} => Min(found) \in found
    BY <1>2, Smallest
  <1> HIDE DEF p
  <1>4. QED
    BY <1>1, <1>3 DEF p

(* A row with another sort_order has it.                                    *)
LEMMA OrderGiven ==
    ASSUME NEW row, IsRow(row), NEW order
    PROVE  [row EXCEPT !.order = order].order = order
  BY DEF IsRow

(* The sort_orders _normalize gives.                                        *)
LEMMA NormalizedOrders ==
    ASSUME NEW rows, NEW S, IsRows(rows)
    PROVE  /\ DOMAIN Normalized(rows, S) = DOMAIN rows
           /\ \A i \in DOMAIN rows :
                Normalized(rows, S)[i].order = IF i \in S THEN Rank(rows, S, i) ELSE rows[i].order
  <1>1. \A i \in DOMAIN rows : [rows[i] EXCEPT !.order = Rank(rows, S, i)].order = Rank(rows, S, i)
    BY OrderGiven DEF IsRows
  <1>2. QED
    BY <1>1 DEF Normalized

(* The sort_orders of rows numbered in the order of a list.                 *)
LEMMA NumberedOrders ==
    ASSUME NEW rows, NEW ids, IsRows(rows)
    PROVE  /\ DOMAIN Numbered(rows, ids) = DOMAIN rows
           /\ \A i \in DOMAIN rows :
                Numbered(rows, ids)[i].order = IF i \in ToSet(ids) THEN PlaceIn(ids, i) - 1 ELSE rows[i].order
  <1>1. \A i \in DOMAIN rows : [rows[i] EXCEPT !.order = PlaceIn(ids, i) - 1].order = PlaceIn(ids, i) - 1
    BY OrderGiven DEF IsRows
  <1>2. QED
    BY <1>1 DEF Numbered

(* The sort_orders of two rows that exchange them.                          *)
LEMMA SwappedOrders ==
    ASSUME IsRows(links), NEW i \in DOMAIN links, NEW j \in DOMAIN links, Swap(i, j)
    PROVE  /\ DOMAIN links' = DOMAIN links
           /\ links'[i].order = links[j].order
           /\ links'[j].order = links[i].order
           /\ \A k \in DOMAIN links \ {i, j} : links'[k] = links[k]
  <1>1. CASE i = j
    <2>1. links' = [links EXCEPT ![i] = [[links[i] EXCEPT !.order = links[i].order] EXCEPT !.order = links[i].order]]
      BY <1>1 DEF Swap
    <2>2. DOMAIN links' = DOMAIN links /\ \A k \in DOMAIN links \ {i} : links'[k] = links[k]
      BY <2>1
    <2>3. links'[i] = [[links[i] EXCEPT !.order = links[i].order] EXCEPT !.order = links[i].order]
      BY <2>1
    <2>4. IsRow([links[i] EXCEPT !.order = links[i].order])
      BY ExceptOrder DEF IsRows
    <2>5. links'[i].order = links[i].order
      BY <2>3, <2>4, OrderGiven
    <2>6. QED
      BY <1>1, <2>2, <2>5
  <1>2. CASE i # j
    <2>1. /\ DOMAIN links' = DOMAIN links
          /\ links'[i] = [links[i] EXCEPT !.order = links[j].order]
          /\ links'[j] = [links[j] EXCEPT !.order = links[i].order]
          /\ \A k \in DOMAIN links \ {i, j} : links'[k] = links[k]
      BY <1>2 DEF Swap
    <2>2. QED
      BY <2>1, OrderGiven DEF IsRows
  <1>3. QED
    BY <1>1, <1>2

-----------------------------------------------------------------------------
(* Rows have numbers: ids of their own, handed out one after the other, and *)
(* sort_orders.                                                             *)
OrderInv ==
    /\ nextLink \in Nat \ {0}
    /\ DOMAIN links \subseteq 1 .. nextLink - 1
    /\ \A i \in DOMAIN links : links[i].order \in Nat

(* What a request keeps: rows a sync has locked stay, and the rows that     *)
(* were read had numbers.                                                   *)
CallOK(call, rows, next) ==
    /\ DOMAIN call = {"step", "link", "row", "order", "list", "held", "seen"}
    /\ call.step \in {"look", "sync"} => call.list \in Lists
    /\ call.step = "read" => call.link \in 1 .. next - 1
    /\ call.held \subseteq DOMAIN rows
    /\ Sortable(call.order)
    /\ call.row.order \in Nat

CallInv ==
    /\ calls = [c \in Clients |-> calls[c]]
    /\ \A c \in Clients : CallOK(calls[c], links, nextLink)

ManagerInv == LinkInv /\ CallInv /\ OrderInv

(* The rows of the branch can be sorted.                                    *)
LEMMA LinksSortable ==
    ASSUME OrderInv
    PROVE  Sortable(links)
  <1>1. IsFiniteSet(1 .. nextLink - 1)
    BY FS_Interval DEF OrderInv
  <1>2. QED
    BY <1>1, FS_Subset DEF OrderInv, Sortable

(* What a request finds locked are rows, each once.                         *)
LEMMA SeenRows ==
    ASSUME CallInv, NEW c \in Clients
    PROVE  Seen(c) \in Seq(DOMAIN links)
  <1> DEFINE S == DOMAIN calls[c].order \cap DOMAIN links
  <1>1. Sortable(calls[c].order) /\ S \in SUBSET DOMAIN calls[c].order
    BY DEF CallInv, CallOK
  <1>2. Listing(calls[c].order, S) \in Seq(S)
    BY <1>1, ListingPlaces
  <1>3. QED
    BY <1>2 DEF Seen

(* A client without a request has read nothing.                             *)
LEMMA NoCallOK ==
    ASSUME NEW rows, NEW next
    PROVE  /\ CallOK(NoCall, rows, next)
           /\ NoCall.step = "none" /\ NoCall.held = {}
  <1>1. Sortable(NoCall.order)
    BY FS_EmptySet DEF Sortable, NoCall
  <1>2. DOMAIN NoCall = {"step", "link", "row", "order", "list", "held", "seen"}
    BY DEF NoCall
  <1>3. NoCall.step = "none" /\ NoCall.held = {} /\ NoCall.row.order \in Nat
    BY DEF NoCall, NoRow
  <1>4. QED
    BY <1>1, <1>2, <1>3 DEF CallOK

(* One request goes on, and the rows that the others have locked stay.      *)
LEMMA CallStep ==
    ASSUME CallInv, NEW c \in Clients, NEW call, CallOK(call, links', nextLink'),
           calls' = [calls EXCEPT ![c] = call],
           \A d \in Clients \ {c} : CallOK(calls[d], links', nextLink')
    PROVE  /\ CallInv'
           /\ calls'[c] = call
           /\ \A d \in Clients \ {c} : calls'[d] = calls[d]
  <1>1. /\ calls' = [d \in Clients |-> calls'[d]]
        /\ calls'[c] = call
        /\ \A d \in Clients \ {c} : calls'[d] = calls[d]
    BY DEF CallInv
  <1>2. \A d \in Clients : CallOK(calls'[d], links', nextLink')
    BY <1>1
  <1>3. QED
    BY <1>1, <1>2 DEF CallInv

(* What the requests keep stays right while the rows they have locked stay. *)
LEMMA CallsStay ==
    ASSUME CallInv, OrderInv, nextLink' \in Nat, nextLink <= nextLink'
    PROVE  /\ \A d \in Clients : calls[d].held \subseteq DOMAIN links' => CallOK(calls[d], links', nextLink')
           /\ DOMAIN links \subseteq DOMAIN links' => \A d \in Clients : CallOK(calls[d], links', nextLink')
  <1>1. ASSUME NEW d \in Clients
        PROVE  /\ calls[d].step = "read" => calls[d].link \in 1 .. nextLink' - 1
               /\ calls[d].held \subseteq DOMAIN links
    BY DEF CallInv, CallOK, OrderInv
  <1>2. QED
    BY <1>1 DEF CallInv, CallOK

(* A request ends.                                                          *)
LEMMA CallEnds ==
    ASSUME CallInv, NEW c \in Clients, Finish(c),
           \A d \in Clients \ {c} : CallOK(calls[d], links', nextLink')
    PROVE  /\ CallInv'
           /\ calls'[c] = NoCall
           /\ \A d \in Clients \ {c} : calls'[d] = calls[d]
  BY NoCallOK, CallStep DEF Finish

(* Requests that create no row change nothing of the rows being created.    *)
LEMMA SameBeing ==
    ASSUME NEW c \in Clients, ~Creating(c), calls'[c].step \notin {"created", "unset"},
           \A d \in Clients \ {c} : calls'[d].step = calls[d].step /\ calls'[d].link = calls[d].link
    PROVE  Being' = Being
  <1>1. \A d \in Clients : Creating(d)' <=> Creating(d)
    BY DEF Creating
  <1>2. \A d \in Clients : Creating(d) => calls'[d].link = calls[d].link
    OBVIOUS
  <1>3. QED
    BY <1>1, <1>2 DEF Being

(* A step that marks nobody.                                                *)
LEMMA NobodyMarked ==
    ASSUME LinkInv, IsRows(links'), OneRowEach(links'), Being' = Being, muddled' = muddled,
           \A i \in DOMAIN links' : links'[i].primary => i \in DOMAIN links /\ links[i].primary
    PROVE  LinkInv'
  <1>1. LeadersIn(links', Being') \subseteq LeadersIn(links, Being)
    BY DEF LeadersIn
  <1>2. QED
    BY <1>1 DEF LinkInv, AtMostOne

(* A step that leaves one row marked at most.                               *)
LEMMA OneMarked ==
    ASSUME IsRows(links'), OneRowEach(links'), NEW i,
           ~muddled' => \A j \in DOMAIN links' : links'[j].primary => j = i
    PROVE  LinkInv'
  BY DEF LinkInv, AtMostOne, LeadersIn

(* A change of sort_orders to numbers, by a request that ends or by one     *)
(* that leaves the others alone.                                            *)
LEMMA OrdersChange ==
    ASSUME ManagerInv, SameButOrder(links, links'), UNCHANGED <<nextLink, muddled>>,
           \A i \in DOMAIN links : links'[i].order \in Nat,
           \/ UNCHANGED calls
           \/ \E c \in Clients : Finish(c) /\ ~Creating(c)
    PROVE  ManagerInv'
  <1>1. DOMAIN links' = DOMAIN links
    BY DEF SameButOrder
  <1>0. \A d \in Clients : CallOK(calls[d], links', nextLink')
    BY <1>1, CallsStay DEF ManagerInv, OrderInv
  <1>2. OrderInv'
    BY <1>1 DEF ManagerInv, OrderInv
  <1>3. IsRows(links') /\ OneRowEach(links')
    BY DEF ManagerInv, LinkInv, SameButOrder, OneRowEach
  <1>4. \A i \in DOMAIN links' : links'[i].primary => i \in DOMAIN links /\ links[i].primary
    BY DEF SameButOrder
  <1>5. CASE UNCHANGED calls
    <2>1. Being' = Being
      BY <1>5 DEF Being, Creating
    <2>2. CallInv'
      BY <1>0, <1>5 DEF ManagerInv, CallInv
    <2>3. QED
      BY <1>2, <1>3, <1>4, <2>1, <2>2, NobodyMarked DEF ManagerInv
  <1>6. ASSUME NEW c \in Clients, Finish(c), ~Creating(c)
        PROVE  ManagerInv'
    <2>1. CallInv' /\ calls'[c] = NoCall /\ \A d \in Clients \ {c} : calls'[d] = calls[d]
      BY <1>0, <1>6, CallEnds DEF ManagerInv
    <2>2. Being' = Being
      BY <1>6, <2>1, NoCallOK, SameBeing
    <2>3. QED
      BY <1>2, <1>3, <1>4, <2>1, <2>2, NobodyMarked DEF ManagerInv
  <1>7. QED
    BY <1>5, <1>6

(* _normalize gives numbers.                                                *)
LEMMA NormalizedNumbers ==
    ASSUME NEW rows, NEW S \in SUBSET DOMAIN rows, IsRows(rows), Sortable(rows)
    PROVE  /\ DOMAIN Normalized(rows, S) = DOMAIN rows
           /\ \A i \in DOMAIN rows : Normalized(rows, S)[i].order \in Nat
  <1>1. \A i \in S : Rank(rows, S, i) \in Nat
    BY RankGrows
  <1>2. QED
    BY <1>1, NormalizedOrders DEF Sortable

(* So does numbering in the order of a list.                                *)
LEMMA NumberedNumbers ==
    ASSUME NEW rows, IsRows(rows), Sortable(rows), NEW T, NEW ids \in Seq(T)
    PROVE  /\ DOMAIN Numbered(rows, ids) = DOMAIN rows
           /\ \A i \in DOMAIN rows : Numbered(rows, ids)[i].order \in Nat
  <1>1. \A i \in ToSet(ids) : PlaceIn(ids, i) - 1 \in Nat
    <2>1. \A i \in ToSet(ids) : \E k \in 1 .. Len(ids) : ids[k] = i
      BY DEF ToSet
    <2>2. \A i \in ToSet(ids) : PlaceIn(ids, i) \in 0 .. Len(ids) /\ PlaceIn(ids, i) # 0
      BY <2>1, PlaceInList
    <2>3. QED
      BY <2>2
  <1>2. QED
    BY <1>1, NumberedOrders DEF Sortable

(* A new row comes after the last, or where the request says, and counts as *)
(* half done, if it is primary, until the others are cleared.               *)
LEMMA CreateKeeps ==
    ASSUME ManagerInv, NEW c \in Clients, NEW u \in Managers, NEW primary \in BOOLEAN,
           NEW order \in 0 .. MaxOrder \cup {AppendOrder}, CreateManager(c, u, primary, order)
    PROVE  ManagerInv'
  <1> DEFINE row == [user |-> u, primary |-> primary, order |-> order]
             created == [NoCall EXCEPT !.step = "created", !.link = nextLink]
  <1>1. LastOrder \in Nat
    <2> DEFINE orders == {links[i].order : i \in DOMAIN links}
    <2>1. IsFiniteSet(orders)
      <3> DEFINE given == [i \in DOMAIN links |-> links[i].order]
      <3>1. IsFiniteSet(DOMAIN links)
        BY LinksSortable DEF ManagerInv, Sortable
      <3>2. given \in Surjection(DOMAIN links, orders)
        BY DEF Surjection
      <3>3. QED
        BY <3>1, <3>2, FS_Surjection
    <2>2. orders \in SUBSET Nat
      BY DEF ManagerInv, OrderInv
    <2>3. CASE DOMAIN links = {}
      BY <2>3 DEF LastOrder
    <2>4. CASE DOMAIN links # {}
      <3>1. orders # {}
        BY <2>4
      <3>2. Max(orders) \in orders
        BY <2>1, <2>2, <3>1, Largest
      <3>3. LastOrder = Max(orders)
        BY <2>4 DEF LastOrder
      <3>4. QED
        BY <2>2, <3>2, <3>3
    <2>5. QED
      BY <2>3, <2>4
  <1>2. order \in Nat
    BY <1>1, ManagerOrderAssumption DEF AppendOrder
  <1>3. /\ DOMAIN links' = DOMAIN links \cup {nextLink} /\ nextLink' = nextLink + 1
        /\ links'[nextLink] = row
        /\ \A i \in DOMAIN links \ {nextLink} : links'[i] = links[i]
    BY DEF CreateManager
  <1>4. IsRow(row) /\ row.user = u /\ row.primary = primary /\ row.order = order
    BY DEF IsRow
  <1> HIDE DEF row
  <1>5. OrderInv'
    <2>1. nextLink' \in Nat \ {0} /\ DOMAIN links' \subseteq 1 .. nextLink' - 1
      BY <1>3 DEF ManagerInv, OrderInv
    <2>2. \A i \in DOMAIN links' : links'[i].order \in Nat
      BY <1>2, <1>3, <1>4 DEF ManagerInv, OrderInv
    <2>3. QED
      BY <2>1, <2>2 DEF OrderInv
  <1>6. IsRows(links')
    BY <1>3, <1>4 DEF ManagerInv, LinkInv, IsRows
  <1>7. OneRowEach(links')
    <2>1. \A i \in DOMAIN links : links[i].user # u
      BY DEF CreateManager, UserOf
    <2>2. QED
      BY <1>3, <1>4, <2>1 DEF ManagerInv, LinkInv, OneRowEach
  <1>8. \A d \in Clients : CallOK(calls[d], links', nextLink')
    BY <1>3, CallsStay DEF ManagerInv, OrderInv
  <1>9. calls[c] = NoCall /\ ~Creating(c)
    BY NoCallOK DEF CreateManager, Creating
  <1>10. CASE ~primary
    <2>1. UNCHANGED calls
      BY <1>10 DEF CreateManager
    <2>2. CallInv'
      BY <1>8, <2>1 DEF ManagerInv, CallInv
    <2>3. Being' = Being
      BY <2>1 DEF Being, Creating
    <2>4. \A i \in DOMAIN links' : links'[i].primary => i \in DOMAIN links /\ links[i].primary
      BY <1>3, <1>4, <1>10
    <2>5. LinkInv'
      BY <1>6, <1>7, <2>3, <2>4, NobodyMarked DEF ManagerInv, CreateManager
    <2>6. QED
      BY <1>5, <2>2, <2>5 DEF ManagerInv
  <1>11. CASE primary
    <2>1. CallOK(created, links', nextLink') /\ created.step = "created" /\ created.link = nextLink
      BY NoCallOK DEF CallOK
    <2>2. calls' = [calls EXCEPT ![c] = created]
      BY <1>11 DEF CreateManager
    <2> HIDE DEF created
    <2>3. CallInv' /\ calls'[c] = created /\ \A d \in Clients \ {c} : calls'[d] = calls[d]
      BY <1>8, <2>1, <2>2, CallStep DEF ManagerInv
    <2>4. Being \cup {nextLink} \subseteq Being'
      <3>1. \A d \in Clients : Creating(d) => Creating(d)' /\ calls'[d].link = calls[d].link
        BY <1>9, <2>3 DEF Creating
      <3>2. Creating(c)' /\ calls'[c].link = nextLink
        BY <2>1, <2>3 DEF Creating
      <3>3. QED
        BY <3>1, <3>2 DEF Being
    <2>5. LeadersIn(links', Being') \subseteq LeadersIn(links, Being)
      BY <1>3, <2>4 DEF LeadersIn
    <2>6. LinkInv'
      BY <1>6, <1>7, <2>5 DEF ManagerInv, LinkInv, AtMostOne, CreateManager
    <2>7. QED
      BY <1>5, <2>3, <2>6 DEF ManagerInv
  <1>12. QED
    BY <1>10, <1>11

(* A request that reads rows, or begins a statement.                        *)
LEMMA AskKeeps ==
    ASSUME ManagerInv, NEW c \in Clients, NEW call, CallOK(call, links, nextLink),
           calls' = [calls EXCEPT ![c] = call], UNCHANGED <<links, nextLink, muddled>>,
           \/ ~Creating(c) /\ call.step \notin {"created", "unset"}
           \/ Creating(c) /\ call.step \in {"created", "unset"} /\ call.link = calls[c].link
    PROVE  ManagerInv'
  <1>1. CallInv' /\ calls'[c] = call /\ \A d \in Clients \ {c} : calls'[d] = calls[d]
    BY CallStep DEF ManagerInv, CallInv
  <1>2. Being' = Being
    <2>1. CASE ~Creating(c) /\ call.step \notin {"created", "unset"}
      BY <1>1, <2>1, SameBeing
    <2>2. CASE Creating(c) /\ call.step \in {"created", "unset"} /\ call.link = calls[c].link
      <3>1. \A d \in Clients : (Creating(d)' <=> Creating(d)) /\ calls'[d].link = calls[d].link
        BY <1>1, <2>2 DEF Creating
      <3>2. QED
        BY <3>1 DEF Being
    <2>3. QED
      BY <2>1, <2>2
  <1>3. QED
    BY <1>1, <1>2 DEF ManagerInv, LinkInv, OrderInv

(* The steps that only ask.                                                 *)
LEMMA AsksKeep ==
    ASSUME ManagerInv, NEW c \in Clients,
           \/ AskUnset(c) \/ AskPrimary(c) \/ LockLinks(c)
           \/ \E list \in Lists : LookForRows(c, list)
           \/ \E i \in DOMAIN links : Read(c, i)
    PROVE  ManagerInv'
  <1>1. calls = [d \in Clients |-> calls[d]] /\ CallOK(calls[c], links, nextLink)
    BY DEF ManagerInv, CallInv
  <1>2. CASE AskUnset(c)
    <2> DEFINE call == [calls[c] EXCEPT !.step = "unset", !.seen = DOMAIN links]
    <2>1. calls' = [calls EXCEPT ![c] = call] /\ UNCHANGED <<links, nextLink, muddled>> /\ Creating(c)
      BY <1>1, <1>2 DEF AskUnset, Creating
    <2>2. CallOK(call, links, nextLink) /\ call.step = "unset" /\ call.link = calls[c].link
      BY <1>1 DEF CallOK
    <2> HIDE DEF call
    <2>3. QED
      BY <2>1, <2>2, AskKeeps
  <1>3. CASE AskPrimary(c)
    <2> DEFINE call == [calls[c] EXCEPT !.step = "primary", !.seen = DOMAIN links]
    <2>1. calls' = [calls EXCEPT ![c] = call] /\ UNCHANGED <<links, nextLink, muddled>> /\ ~Creating(c)
      BY <1>1, <1>3 DEF AskPrimary, Creating
    <2>2. CallOK(call, links, nextLink) /\ call.step = "primary"
      BY <1>1 DEF CallOK
    <2> HIDE DEF call
    <2>3. QED
      BY <2>1, <2>2, AskKeeps
  <1>4. CASE LockLinks(c)
    <2> DEFINE rows == calls[c].seen \cap DOMAIN links
               call == [calls[c] EXCEPT !.step = "sync", !.held = rows, !.seen = DOMAIN links]
    <2>1. calls' = [calls EXCEPT ![c] = call] /\ UNCHANGED <<links, nextLink, muddled>> /\ ~Creating(c)
      BY <1>1, <1>4 DEF LockLinks, Creating
    <2>2. calls[c].list \in Lists
      BY <1>1, <1>4 DEF LockLinks, CallOK
    <2>3. CallOK(call, links, nextLink) /\ call.step = "sync"
      BY <1>1, <2>2 DEF CallOK
    <2> HIDE DEF call
    <2>4. QED
      BY <2>1, <2>3, AskKeeps
  <1>5. ASSUME NEW list \in Lists, LookForRows(c, list)
        PROVE  ManagerInv'
    <2> DEFINE call == [NoCall EXCEPT !.step = "look", !.list = list, !.seen = DOMAIN links]
    <2>1. calls' = [calls EXCEPT ![c] = call] /\ UNCHANGED <<links, nextLink, muddled>> /\ ~Creating(c)
      BY <1>5, NoCallOK DEF LookForRows, Creating
    <2>2. CallOK(call, links, nextLink) /\ call.step = "look"
      BY NoCallOK DEF CallOK
    <2> HIDE DEF call
    <2>3. QED
      BY <2>1, <2>2, AskKeeps
  <1>6. ASSUME NEW i \in DOMAIN links, Read(c, i)
        PROVE  ManagerInv'
    <2> DEFINE call == [NoCall EXCEPT !.step = "read", !.link = i, !.row = links[i], !.order = Ranks(links)]
    <2>1. Sortable(Ranks(links))
      <3>1. \A k \in DOMAIN links : Rank(links, DOMAIN links, k) \in Nat
        BY LinksSortable, RankGrows DEF ManagerInv
      <3>2. DOMAIN Ranks(links) = DOMAIN links /\ \A k \in DOMAIN links : Ranks(links)[k].order \in Nat
        BY <3>1 DEF Ranks
      <3>3. QED
        BY <3>2, LinksSortable DEF ManagerInv, Sortable
    <2>2. calls' = [calls EXCEPT ![c] = call] /\ UNCHANGED <<links, nextLink, muddled>> /\ ~Creating(c)
      BY <1>6, NoCallOK DEF Read, Creating
    <2>3. links[i].order \in Nat /\ i \in 1 .. nextLink - 1
      BY DEF ManagerInv, OrderInv
    <2>4. CallOK(call, links, nextLink) /\ call.step = "read"
      BY <2>1, <2>3, NoCallOK DEF CallOK
    <2> HIDE DEF call
    <2>5. QED
      BY <2>2, <2>4, AskKeeps
  <1>7. QED
    BY <1>2, <1>3, <1>4, <1>5, <1>6

(* The two requests that clear the others and leave one row marked, unless  *)
(* a row has come meanwhile.                                                *)
LEMMA ClearingKeeps ==
    ASSUME ManagerInv, NEW c \in Clients, NEW i, NEW others, i \notin others, Finish(c),
           IsRows(links'), DOMAIN links' = DOMAIN links, UNCHANGED nextLink,
           \A j \in DOMAIN links : /\ links'[j].user = links[j].user
                                   /\ links'[j].order = links[j].order
                                   /\ j \in others => ~links'[j].primary,
           muddled' = Overtaken(others \cup {i})
    PROVE  ManagerInv'
  <1>1. OrderInv' /\ OneRowEach(links')
    BY DEF ManagerInv, OrderInv, LinkInv, OneRowEach
  <1>2. CallInv'
    BY CallsStay, CallEnds DEF ManagerInv, OrderInv
  <1>3. ~muddled' => \A j \in DOMAIN links' : links'[j].primary => j = i
    BY DEF Overtaken
  <1>4. QED
    BY <1>1, <1>2, <1>3, OneMarked DEF ManagerInv

(* The second half of a creation.                                           *)
LEMMA UnsetKeeps ==
    ASSUME ManagerInv, NEW c \in Clients, UnsetOthers(c)
    PROVE  ManagerInv'
  <1> DEFINE i == calls[c].link
             others == calls[c].seen \ {i}
  <1>1. /\ links' = Cleared(links, others) /\ UNCHANGED nextLink /\ Finish(c)
        /\ muddled' = Overtaken(others \cup {i}) /\ i \notin others
    BY DEF UnsetOthers
  <1>2. IsRows(links)
    BY DEF ManagerInv, LinkInv
  <1> HIDE DEF i, others
  <1>3. QED
    BY <1>1, <1>2, ClearedRows, ClearingKeeps

(* set-primary leaves the sort_orders and the users alone.                  *)
LEMMA SetPrimaryRows ==
    ASSUME IsRows(links), NEW c \in Clients, SetPrimary(c)
    PROVE  /\ DOMAIN links' = DOMAIN links /\ IsRows(links')
           /\ \A j \in DOMAIN links : /\ links'[j].user = links[j].user
                                      /\ links'[j].order = links[j].order
                                      /\ j \in calls[c].seen \ {calls[c].link} => ~links'[j].primary
  <1> DEFINE i == calls[c].link
             others == calls[c].seen \ {i}
             rows == Cleared(links, others)
  <1>1. /\ links' = IF calls[c].row.primary THEN rows ELSE [rows EXCEPT ![i].primary = TRUE]
        /\ ~calls[c].row.primary => i \in DOMAIN links
    BY DEF SetPrimary, WithMark
  <1>2. /\ DOMAIN rows = DOMAIN links /\ IsRows(rows)
        /\ \A j \in DOMAIN links : /\ rows[j].user = links[j].user
                                   /\ rows[j].order = links[j].order
                                   /\ rows[j].primary => j \notin others
    BY ClearedRows
  <1>3. i \notin others
    OBVIOUS
  <1> HIDE DEF rows, i, others
  <1>4. CASE calls[c].row.primary
    BY <1>1, <1>2, <1>4 DEF others, i
  <1>5. CASE ~calls[c].row.primary
    <2>1. DOMAIN links' = DOMAIN rows /\ \A j \in DOMAIN rows \ {i} : links'[j] = rows[j]
      BY <1>1, <1>5
    <2>2. links'[i] = [rows[i] EXCEPT !.primary = TRUE]
      BY <1>1, <1>2, <1>5
    <2>3. IsRow(links'[i]) /\ links'[i].user = rows[i].user /\ links'[i].order = rows[i].order
      <3>1. IsRow(rows[i])
        BY <1>1, <1>2, <1>5 DEF IsRows
      <3>2. QED
        BY <2>2, <3>1 DEF IsRow
    <2>4. IsRows(links')
      BY <1>2, <2>1, <2>3 DEF IsRows
    <2>5. \A j \in DOMAIN links : /\ links'[j].user = links[j].user
                                  /\ links'[j].order = links[j].order
                                  /\ j \in others => ~links'[j].primary
      BY <1>2, <1>3, <2>1, <2>3
    <2>6. QED
      BY <1>2, <2>1, <2>4, <2>5 DEF others, i
  <1>6. QED
    BY <1>4, <1>5

(* set-primary.                                                             *)
LEMMA SetPrimaryKeeps ==
    ASSUME ManagerInv, NEW c \in Clients, SetPrimary(c)
    PROVE  ManagerInv'
  <1> DEFINE i == calls[c].link
             others == calls[c].seen \ {i}
  <1>1. UNCHANGED nextLink /\ Finish(c) /\ muddled' = Overtaken(others \cup {i}) /\ i \notin others
    BY DEF SetPrimary
  <1>2. IsRows(links)
    BY DEF ManagerInv, LinkInv
  <1>3. /\ DOMAIN links' = DOMAIN links /\ IsRows(links')
        /\ \A j \in DOMAIN links : /\ links'[j].user = links[j].user
                                   /\ links'[j].order = links[j].order
                                   /\ j \in others => ~links'[j].primary
    BY <1>2, SetPrimaryRows
  <1> HIDE DEF i, others
  <1>4. QED
    BY <1>1, <1>3, ClearingKeeps

(* A PUT may mark its row, which muddles, and may insert it again.          *)
LEMMA PutKeeps ==
    ASSUME ManagerInv, NEW c \in Clients, NEW primary \in BOOLEAN,
           NEW order \in 0 .. MaxOrder \cup {calls[c].row.order}, Put(c, order, primary)
    PROVE  ManagerInv'
  <1> DEFINE i == calls[c].link
             row == [user |-> calls[c].row.user, primary |-> primary, order |-> order]
             changed == [links[i] EXCEPT !.primary = primary, !.order = order]
             forgets(d) == [calls[d] EXCEPT !.seen = @ \ {i}, !.order = Restrict(@, DOMAIN @ \ {i})]
  <1>1. calls = [d \in Clients |-> calls[d]] /\ \A d \in Clients : CallOK(calls[d], links, nextLink)
    BY DEF ManagerInv, CallInv
  <1>2. order \in Nat
    BY <1>1, ManagerOrderAssumption DEF CallOK
  <1>3. ~Creating(c) /\ UNCHANGED nextLink
    BY DEF Put, Creating
  <1>4. calls'[c] = NoCall /\ \A d \in Clients \ {c} : calls'[d] \in {calls[d], forgets(d)}
    BY DEF Put
  <1>5. \A d \in Clients \ {c} : /\ CallOK(calls'[d], links, nextLink)
                                 /\ calls'[d].step = calls[d].step /\ calls'[d].link = calls[d].link
    <2>1. ASSUME NEW d \in Clients
          PROVE  /\ CallOK(forgets(d), links, nextLink)
                 /\ forgets(d).step = calls[d].step /\ forgets(d).link = calls[d].link
      <3> DEFINE part == Restrict(calls[d].order, DOMAIN calls[d].order \ {i})
      <3>1. CallOK(calls[d], links, nextLink)
        BY <1>1
      <3>2. Sortable(part)
        <4>1. /\ DOMAIN part = DOMAIN calls[d].order \ {i}
              /\ \A k \in DOMAIN part : part[k] = calls[d].order[k]
          BY DEF Restrict
        <4>2. IsFiniteSet(DOMAIN calls[d].order) /\ DOMAIN part \in SUBSET DOMAIN calls[d].order
          BY <3>1, <4>1 DEF CallOK, Sortable
        <4> HIDE DEF part
        <4>3. QED
          BY <3>1, <4>1, <4>2, FS_Subset DEF CallOK, Sortable
      <3> HIDE DEF part
      <3>3. forgets(d) = [calls[d] EXCEPT !.seen = @ \ {i}, !.order = part]
        BY DEF part
      <3>4. QED
        BY <3>1, <3>2, <3>3 DEF CallOK
    <2> HIDE DEF forgets
    <2>2. QED
      BY <1>1, <1>4, <2>1
  <1>6. Being' = Being
    BY <1>3, <1>4, <1>5, NoCallOK, SameBeing
  <1>7. DOMAIN links \subseteq DOMAIN links' => CallInv'
    <2>1. calls' = [d \in Clients |-> calls'[d]]
      BY DEF Put
    <2>2. DOMAIN links \subseteq DOMAIN links' => \A d \in Clients \ {c} : CallOK(calls'[d], links', nextLink')
      BY <1>3, <1>5 DEF CallOK
    <2>3. QED
      BY <1>4, <2>1, <2>2, NoCallOK DEF CallInv
  <1>8. i \in 1 .. nextLink - 1
    BY <1>1 DEF Put, CallOK
  <1>9. /\ IsRows(links') /\ OneRowEach(links') /\ DOMAIN links' = DOMAIN links \cup {i}
        /\ links'[i].order = order /\ links'[i].primary = primary
        /\ \A j \in DOMAIN links \ {i} : links'[j] = links[j]
    <2>1. CASE i \notin DOMAIN links
      <3>1. /\ DOMAIN links' = DOMAIN links \cup {i} /\ links'[i] = row
            /\ \A j \in DOMAIN links : links'[j] = links[j]
        BY <2>1 DEF Put
      <3>2. IsRow(row) /\ row.user = calls[c].row.user /\ row.primary = primary /\ row.order = order
        BY DEF IsRow
      <3>3. \A j \in DOMAIN links : links[j].user # calls[c].row.user
        BY <2>1 DEF Put, UserOf
      <3> HIDE DEF row
      <3>4. IsRows(links')
        BY <3>1, <3>2 DEF ManagerInv, LinkInv, IsRows
      <3>5. OneRowEach(links')
        BY <3>1, <3>2, <3>3 DEF ManagerInv, LinkInv, OneRowEach
      <3>6. QED
        BY <3>1, <3>2, <3>4, <3>5
    <2>2. CASE i \in DOMAIN links
      <3>1. /\ DOMAIN links' = DOMAIN links
            /\ \A j \in DOMAIN links \ {i} : links'[j] = links[j]
        BY <2>2 DEF Put
      <3>2. links'[i] = changed
        <4>1. links' = [links EXCEPT ![i].primary = primary, ![i].order = order]
          BY <2>2 DEF Put
        <4>2. QED
          BY <2>2, <4>1
      <3>3. IsRow(links[i])
        BY <2>2 DEF ManagerInv, LinkInv, IsRows
      <3>4. /\ IsRow(changed) /\ changed.user = links[i].user
            /\ changed.primary = primary /\ changed.order = order
        <4> DEFINE first == [links[i] EXCEPT !.primary = primary]
        <4>1. IsRow(first) /\ first.user = links[i].user /\ first.primary = primary
          BY <3>3 DEF IsRow
        <4>2. changed = [first EXCEPT !.order = order]
          OBVIOUS
        <4> HIDE DEF first, changed
        <4>3. QED
          BY <4>1, <4>2 DEF IsRow
      <3> HIDE DEF changed
      <3>5. IsRows(links')
        BY <3>1, <3>2, <3>4 DEF ManagerInv, LinkInv, IsRows
      <3>6. OneRowEach(links')
        BY <3>1, <3>2, <3>4 DEF ManagerInv, LinkInv, OneRowEach
      <3>7. QED
        BY <2>2, <3>1, <3>2, <3>4, <3>5, <3>6
    <2>3. QED
      BY <2>1, <2>2
  <1>10. muddled' = (muddled \/ (primary /\ (i \notin DOMAIN links \/ ~links[i].primary)))
    BY DEF Put
  <1> HIDE DEF i, forgets, row, changed
  <1>11. OrderInv'
    BY <1>2, <1>3, <1>8, <1>9 DEF ManagerInv, OrderInv
  <1>12. CASE muddled'
    BY <1>7, <1>9, <1>11, <1>12 DEF ManagerInv, LinkInv
  <1>13. CASE ~muddled'
    <2>1. \A j \in DOMAIN links' : links'[j].primary => j \in DOMAIN links /\ links[j].primary
      BY <1>9, <1>10, <1>13
    <2>2. LeadersIn(links', Being') \subseteq LeadersIn(links, Being)
      BY <1>6, <2>1 DEF LeadersIn
    <2>3. ~muddled
      BY <1>10, <1>13
    <2>4. LinkInv'
      BY <1>9, <2>2, <2>3 DEF ManagerInv, LinkInv, AtMostOne
    <2>5. QED
      BY <1>7, <1>9, <1>11, <2>4 DEF ManagerInv
  <1>14. QED
    BY <1>12, <1>13

(* The moves, which may find the row gone.                                  *)
LEMMA MoveKeeps ==
    ASSUME ManagerInv, NEW c \in Clients, NEW position \in Nat,
           MoveUp(c) \/ MoveDown(c) \/ MoveTo(c, position)
    PROVE  ManagerInv'
  <1> DEFINE L == Seen(c)
             p == Place(c)
  <1>1. UNCHANGED <<nextLink, muddled>> /\ Finish(c) /\ ~Creating(c)
    BY DEF MoveUp, MoveDown, MoveTo, Answer, Creating
  <1>2. /\ IsRows(links) /\ \A i \in DOMAIN links : links[i].order \in Nat
        /\ Sortable(links)
    BY LinksSortable DEF ManagerInv, LinkInv, OrderInv
  <1>3. CASE UNCHANGED links
    <2>1. SameButOrder(links, links')
      BY <1>2, <1>3 DEF SameButOrder
    <2>2. QED
      BY <1>1, <1>2, <1>3, <2>1, OrdersChange
  <1>4. L \in Seq(DOMAIN links) /\ Len(L) \in Nat /\ \A k \in 1 .. Len(L) : L[k] \in DOMAIN links
    BY SeenRows DEF ManagerInv
  <1>5. p \in 0 .. Len(L) /\ (p # 0 => L[p] = calls[c].link)
    BY <1>4, PlaceInList DEF Place
  <1>6. ASSUME NEW i \in DOMAIN links, NEW j \in DOMAIN links, Swap(i, j)
        PROVE  ManagerInv'
    <2>1. \A k \in DOMAIN links : links'[k].order \in Nat
      BY <1>2, <1>6, SwappedOrders
    <2>2. QED
      BY <1>1, <1>2, <1>6, <2>1, SwapApart, OrdersChange
  <1>7. CASE p > 1 /\ Swap(L[p - 1], calls[c].link)
    BY <1>4, <1>5, <1>6, <1>7
  <1>8. CASE p \in 1 .. Len(L) - 1 /\ Swap(calls[c].link, L[p + 1])
    BY <1>4, <1>5, <1>6, <1>8
  <1>9. ASSUME NEW target, target = Min({position + 1, Len(L)}), p \notin {0, target},
               links' = Numbered(links, Moved(L, p, target))
        PROVE  ManagerInv'
    <2>1. p \in 1 .. Len(L)
      BY <1>5, <1>9
    <2>2. {position + 1, Len(L)} \in SUBSET Nat /\ {position + 1, Len(L)} # {}
      BY <1>4
    <2>3. target \in {position + 1, Len(L)} /\ target <= Len(L)
      BY <1>9, <2>2, Smallest
    <2>4. target \in 1 .. Len(L)
      BY <1>4, <2>1, <2>3
    <2>5. Moved(L, p, target) \in Seq(DOMAIN links)
      BY <1>4, <2>1, <2>4, MovedPlaces
    <2>6. SameButOrder(links, links') /\ \A k \in DOMAIN links : links'[k].order \in Nat
      BY <1>2, <1>9, <2>5, NumberedApart, NumberedNumbers
    <2>7. QED
      BY <1>1, <2>6, OrdersChange
  <1>10. QED
    BY <1>3, <1>7, <1>8, <1>9 DEF MoveUp, MoveDown, MoveTo

(* reorder.                                                                 *)
LEMMA ReorderKeeps ==
    ASSUME ManagerInv, NEW list \in Lists, Reorder(list)
    PROVE  ManagerInv'
  <1> DEFINE of(u) == CHOOSE i \in DOMAIN links : UserOf(i) = u
             ids == [k \in DOMAIN list |-> of(list[k])]
             T == {of(list[k]) : k \in DOMAIN list}
  <1>1. links' = Numbered(links, ids) /\ UNCHANGED <<nextLink, calls, muddled>>
    BY DEF Reorder
  <1>2. DOMAIN list = 1 .. Len(list) /\ Len(list) \in Nat
    BY ManagerOrderAssumption
  <1> HIDE DEF of
  <1>3. ids \in Seq(T)
    BY <1>2
  <1> HIDE DEF ids, T
  <1>4. IsRows(links) /\ Sortable(links)
    BY LinksSortable DEF ManagerInv, LinkInv
  <1>5. SameButOrder(links, links') /\ \A j \in DOMAIN links : links'[j].order \in Nat
    BY <1>1, <1>3, <1>4, NumberedApart, NumberedNumbers
  <1>6. QED
    BY <1>1, <1>5, OrdersChange

(* A deletion waits until no row is locked, and marks nobody.               *)
LEMMA DestroyKeeps ==
    ASSUME ManagerInv, NEW i \in DOMAIN links, Destroy(i)
    PROVE  ManagerInv'
  <1> DEFINE rest == [j \in DOMAIN links \ {i} |-> links[j]]
  <1>1. links' = Normalized(rest, DOMAIN rest) /\ UNCHANGED <<nextLink, calls, muddled>>
    BY DEF Destroy
  <1>2. IsRows(rest) /\ OneRowEach(rest) /\ Sortable(rest) /\ DOMAIN rest = DOMAIN links \ {i}
    BY LinksSortable, FS_Subset DEF ManagerInv, LinkInv, IsRows, OneRowEach, Sortable
  <1>3. \A d \in Clients : calls[d].held = {}
    BY DEF Destroy, NotHeld, ManagerInv, CallInv, CallOK
  <1>4. \A j \in DOMAIN rest : j \in DOMAIN links /\ rest[j] = links[j]
    OBVIOUS
  <1> HIDE DEF rest
  <1>5. SameButOrder(rest, links') /\ DOMAIN links' = DOMAIN rest
        /\ \A j \in DOMAIN rest : links'[j].order \in Nat
    BY <1>1, <1>2, NormalizedApart, NormalizedNumbers
  <1>6. OrderInv'
    BY <1>1, <1>2, <1>5 DEF ManagerInv, OrderInv
  <1>7. CallInv'
    <2>1. \A d \in Clients : CallOK(calls[d], links', nextLink')
      BY <1>1, <1>3, CallsStay DEF ManagerInv, OrderInv
    <2>2. QED
      BY <1>1, <2>1 DEF ManagerInv, CallInv
  <1>8. Being' = Being
    BY <1>1 DEF Being, Creating
  <1>9. IsRows(links') /\ OneRowEach(links')
    BY <1>2, <1>5 DEF SameButOrder, OneRowEach
  <1>10. \A j \in DOMAIN links' : links'[j].primary => j \in DOMAIN links /\ links[j].primary
    BY <1>4, <1>5 DEF SameButOrder
  <1>11. QED
    BY <1>1, <1>6, <1>7, <1>8, <1>9, <1>10, NobodyMarked DEF ManagerInv

(* So does delete-by.                                                       *)
LEMMA DeleteAllKeeps ==
    ASSUME ManagerInv, DeleteAll
    PROVE  ManagerInv'
  <1>1. DOMAIN links' = {} /\ UNCHANGED <<nextLink, calls, muddled>>
    BY DEF DeleteAll
  <1>2. \A d \in Clients : calls[d].held = {}
    BY DEF DeleteAll, NotHeld, ManagerInv, CallInv, CallOK
  <1>3. CallInv'
    <2>1. \A d \in Clients : CallOK(calls[d], links', nextLink')
      BY <1>1, <1>2, CallsStay DEF ManagerInv, OrderInv
    <2>2. QED
      BY <1>1, <2>1 DEF ManagerInv, CallInv
  <1>4. QED
    BY <1>1, <1>3 DEF ManagerInv, OrderInv, LinkInv, IsRows, OneRowEach, AtMostOne, LeadersIn

(* A creation that breaks off leaves its mark beside the others.            *)
LEMMA AbortKeeps ==
    ASSUME ManagerInv, NEW c \in Clients, Abort(c)
    PROVE  ManagerInv'
  <1>1. UNCHANGED <<links, nextLink>> /\ Finish(c) /\ muddled' = (muddled \/ Creating(c))
    BY DEF Abort
  <1>2. CallInv' /\ calls'[c] = NoCall /\ \A d \in Clients \ {c} : calls'[d] = calls[d]
    BY <1>1, CallEnds DEF ManagerInv, CallInv
  <1>3. OrderInv'
    BY <1>1 DEF ManagerInv, OrderInv
  <1>4. CASE Creating(c)
    BY <1>1, <1>2, <1>3, <1>4 DEF ManagerInv, LinkInv
  <1>5. CASE ~Creating(c)
    <2>1. Being' = Being
      BY <1>2, <1>5, NoCallOK, SameBeing
    <2>2. QED
      BY <1>1, <1>2, <1>3, <1>5, <2>1 DEF ManagerInv, LinkInv
  <1>6. QED
    BY <1>4, <1>5

-----------------------------------------------------------------------------
(* sync.                                                                    *)

(* The rows sync leaves and makes, before they are numbered: one for every  *)
(* manager of the list, with its place on it, beside the rows that it has   *)
(* not locked.                                                              *)
SyncedRows(rows, place, list, others) ==
    /\ IsRows(rows) /\ Sortable(rows) /\ OneRowEach(rows)
    /\ others \subseteq DOMAIN rows
    /\ \A i \in DOMAIN rows \ others :
         /\ place[i] \in DOMAIN list /\ list[place[i]] = rows[i].user
         /\ rows[i].primary <=> place[i] = 1
         /\ place[i] > 1 => rows[i].order = place[i] - 2
         /\ \A j \in DOMAIN rows \ others : place[i] = place[j] => i = j
    /\ \A k \in DOMAIN list : \E i \in DOMAIN rows \ others : place[i] = k

(* sync has such rows, with ids below those that are handed out next.       *)
LEMMA SyncRows ==
    ASSUME ManagerInv, NEW list \in Lists, NEW held \in SUBSET DOMAIN links, NEW seen,
           \A i \in DOMAIN links \ held : UserOf(i) \notin ToSet(list)
    PROVE  \E rows, place :
             /\ SyncedRows(rows, place, list, DOMAIN links \ held)
             /\ \A i \in DOMAIN links \ held : rows[i].primary => i \notin seen
             /\ Synced(list, held, seen) = Normalized(rows, Deputies(rows))
             /\ Cardinality(ToAdd(list, held)) \in Nat
             /\ DOMAIN rows \subseteq 1 .. nextLink + Cardinality(ToAdd(list, held)) - 1
  <1> DEFINE others == DOMAIN links \ held
             kept == {i \in held : UserOf(i) \in ToSet(list)}
             added == ToAdd(list, held)
             n == Cardinality(added)
             id == [k \in added |-> nextLink + Cardinality({j \in added : j < k})]
             ids == kept \cup Range(id)
             of(i) == CHOOSE k \in added : id[k] = i
             user == [i \in ids |-> IF i \in kept THEN UserOf(i) ELSE list[CHOOSE k \in added : id[k] = i]]
             place == [i \in ids |-> CHOOSE k \in DOMAIN list : list[k] = user[i]]
             order(i) == CASE place[i] > 1 -> place[i] - 2
                           [] place[i] = 1 /\ i \in kept -> links[i].order
                           [] OTHER -> 0
             all == others \cup ids
             rows == [i \in all |-> IF i \in others THEN Cleared(links, seen)[i]
                                   ELSE [user |-> user[i], primary |-> place[i] = 1, order |-> order(i)]]
  <1>1. Synced(list, held, seen) = Normalized(rows, Deputies(rows))
    BY DEF Synced
  <1>2. /\ list \in Seq(Managers) /\ DOMAIN list = 1 .. Len(list) /\ Len(list) \in Nat
        /\ \A k, l \in DOMAIN list : list[k] = list[l] => k = l
    BY ManagerOrderAssumption DEF IsInjective
  <1>3. nextLink \in Nat \ {0} /\ \A i \in DOMAIN links : i \in 1 .. nextLink - 1
    BY DEF ManagerInv, OrderInv
  <1>4. \A k \in added : k \in DOMAIN list /\ list[k] \notin {UserOf(i) : i \in held}
    BY DEF ToAdd
  <1>5. \A k \in DOMAIN list \ added : \E i \in kept : UserOf(i) = list[k]
    BY DEF ToAdd, ToSet
  <1>6. \A i \in kept : i \in held /\ i \in DOMAIN links /\ \E k \in DOMAIN list : list[k] = UserOf(i)
    BY DEF ToSet
  <1>7. /\ n \in Nat
        /\ \A k \in added : id[k] \in nextLink .. nextLink + n - 1
        /\ \A k, l \in added : id[k] = id[l] => k = l
    <2> DEFINE flat == [k \in added |-> [order |-> 0]]
               below(k) == Cardinality({j \in added : j < k})
    <2>1. IsFiniteSet(1 .. Len(list)) /\ added \in SUBSET (1 .. Len(list))
      BY <1>2, <1>4, FS_Interval
    <2>2. IsFiniteSet(added) /\ \A k \in added : k \in Nat
      BY <2>1, FS_Subset
    <2> HIDE DEF added
    <2>3. DOMAIN flat = added /\ \A k \in added : flat[k].order = 0
      OBVIOUS
    <2> HIDE DEF flat
    <2>4. Sortable(flat)
      BY <2>2, <2>3 DEF Sortable
    <2>5. \A k \in added : Rank(flat, added, k) = below(k)
      <3>1. \A j, k \in added : Before(flat, j, k) <=> j < k
        BY <2>2, <2>3 DEF Before
      <3>2. \A k \in added : {j \in added : Before(flat, j, k)} = {j \in added : j < k}
        BY <3>1
      <3>3. QED
        BY <3>2 DEF Rank
    <2>6. /\ \A k \in added : Rank(flat, added, k) \in 0 .. n - 1
          /\ \A k, l \in added : Rank(flat, added, k) = Rank(flat, added, l) => k = l
      BY <2>3, <2>4, RankGrows
    <2>7. n \in Nat
      BY <2>2, FS_CardinalityType
    <2> HIDE DEF below, n
    <2>8. \A k \in added : id[k] = nextLink + below(k) /\ below(k) \in 0 .. n - 1
      BY <2>5, <2>6 DEF below
    <2>9. \A k, l \in added : below(k) = below(l) => k = l
      BY <2>5, <2>6
    <2> HIDE DEF id
    <2>10. QED
      BY <1>3, <2>7, <2>8, <2>9
  <1>8. \A i \in Range(id) : of(i) \in added /\ id[of(i)] = i
    <2>1. \A i \in Range(id) : \E k \in added : id[k] = i
      BY DEF Range
    <2> HIDE DEF id, added
    <2>2. QED
      BY <2>1
  <1>9. \A k \in added : id[k] \in Range(id) /\ id[k] \notin kept /\ of(id[k]) = k
    <2>1. DOMAIN id = added
      OBVIOUS
    <2>2. \A k \in added : id[k] \in Range(id)
      BY <2>1 DEF Range
    <2> HIDE DEF id, added, n, of
    <2>3. \A k \in added : id[k] \notin kept
      BY <1>3, <1>6, <1>7
    <2>4. \A k \in added : of(id[k]) = k
      BY <1>7, <1>8, <2>2
    <2>5. QED
      BY <2>2, <2>3, <2>4
  <1>10. \A i \in kept : user[i] = UserOf(i)
    OBVIOUS
  <1>11. \A i \in ids \ kept : user[i] = list[of(i)]
    OBVIOUS
  <1>12. \A i \in ids : \E k \in DOMAIN list : list[k] = user[i]
    BY <1>4, <1>6, <1>8, <1>10, <1>11
  <1>13. \A i \in ids : place[i] \in DOMAIN list /\ list[place[i]] = user[i]
    <2> HIDE DEF ids, user
    <2>1. QED
      BY <1>12
  <1>14. \A k \in DOMAIN list : \E i \in ids : user[i] = list[k]
    <2>1. ASSUME NEW k \in added
          PROVE  id[k] \in ids \ kept /\ user[id[k]] = list[k]
      BY <1>9, <1>11
    <2>2. ASSUME NEW k \in DOMAIN list \ added
          PROVE  \E i \in ids : user[i] = list[k]
      BY <1>5, <1>10
    <2>3. QED
      BY <2>1, <2>2
  <1>15. \A i, j \in ids : user[i] = user[j] => i = j
    <2>1. \A i, j \in kept : user[i] = user[j] => i = j
      BY <1>6, <1>10 DEF ManagerInv, LinkInv, OneRowEach, UserOf
    <2>2. \A i \in ids \ kept : user[i] = list[of(i)] /\ of(i) \in added /\ id[of(i)] = i
      BY <1>8, <1>11
    <2>3. \A i, j \in ids \ kept : user[i] = user[j] => i = j
      <3> HIDE DEF of, ids, user, kept, added, id
      <3>1. QED
        BY <1>2, <1>4, <2>2
    <2>4. \A i \in kept, j \in ids \ kept : user[i] # user[j]
      <3>1. \A i \in kept : user[i] \in {UserOf(k) : k \in held}
        BY <1>6, <1>10
      <3>2. \A j \in ids \ kept : user[j] \notin {UserOf(k) : k \in held}
        BY <1>4, <2>2
      <3>3. QED
        BY <3>1, <3>2
    <2>5. QED
      BY <2>1, <2>3, <2>4
  <1>16. ids \subseteq 1 .. nextLink + n - 1
    <2> HIDE DEF id, added, n, of
    <2>1. \A i \in Range(id) : i \in nextLink .. nextLink + n - 1
      BY <1>7, <1>8
    <2>2. QED
      BY <1>3, <1>6, <1>7, <2>1
  <1>24. ids \cap others = {}
    <2> HIDE DEF id, added, n, of
    <2>1. \A i \in Range(id) : i \notin DOMAIN links
      BY <1>3, <1>7, <1>8
    <2>2. QED
      BY <1>6, <2>1
  <1> HIDE DEF id, added, n, of, user, place, ids, kept
  <1>17. \A i \in ids : order(i) \in Nat /\ (place[i] > 1 => order(i) = place[i] - 2)
    <2>1. \A i \in ids : place[i] \in Nat
      BY <1>2, <1>13
    <2>2. \A i \in kept : links[i].order \in Nat
      BY <1>6 DEF ManagerInv, OrderInv
    <2>3. QED
      BY <2>1, <2>2
  <1> HIDE DEF order
  <1>18. /\ DOMAIN rows = all
         /\ \A i \in ids : /\ IsRow(rows[i])
                           /\ rows[i].user = user[i] /\ rows[i].order = order(i)
                           /\ rows[i].primary <=> place[i] = 1
    BY <1>24 DEF IsRow
  <1>25. \A i \in others : /\ IsRow(rows[i])
                           /\ rows[i].user = links[i].user /\ rows[i].order = links[i].order
                           /\ rows[i].primary => i \notin seen
    <2>1. \A i \in others : rows[i] = Cleared(links, seen)[i] /\ i \in DOMAIN links
      OBVIOUS
    <2>2. IsRows(links)
      BY DEF ManagerInv, LinkInv
    <2> HIDE DEF rows
    <2>3. QED
      BY <2>1, <2>2, ClearedRows DEF IsRows
  <1> HIDE DEF rows
  <1>26. DOMAIN rows \ others = ids
    BY <1>18, <1>24
  <1>19. IsRows(rows) /\ Sortable(rows)
    <2>1. IsFiniteSet(1 .. nextLink + n - 1)
      BY <1>3, <1>7, FS_Interval
    <2>2. all \in SUBSET (1 .. nextLink + n - 1)
      <3>1. \A i \in others : i \in 1 .. nextLink + n - 1
        BY <1>3, <1>7
      <3>2. QED
        BY <1>16, <3>1
    <2>3. IsFiniteSet(all) /\ all \subseteq Nat
      <3> HIDE DEF all
      <3>1. IsFiniteSet(all)
        BY <2>1, <2>2, FS_Subset
      <3>2. all \subseteq Nat
        BY <2>2
      <3>3. QED
        BY <3>1, <3>2
    <2>4. \A i \in others : links[i].order \in Nat
      BY DEF ManagerInv, OrderInv
    <2> HIDE DEF others
    <2>5. QED
      BY <1>17, <1>18, <1>25, <2>3, <2>4 DEF IsRows, Sortable
  <1>27. OneRowEach(rows)
    <2>1. \A i, j \in others : rows[i].user = rows[j].user => i = j
      BY <1>25 DEF ManagerInv, LinkInv, OneRowEach
    <2>2. \A i \in ids : rows[i].user \in ToSet(list)
      BY <1>13, <1>18 DEF ToSet
    <2>3. \A i \in others : rows[i].user \notin ToSet(list)
      BY <1>25 DEF UserOf
    <2> HIDE DEF others
    <2>4. QED
      BY <1>15, <1>18, <2>1, <2>2, <2>3 DEF OneRowEach
  <1>20. \A k \in DOMAIN list : \E i \in ids : place[i] = k
    BY <1>2, <1>13, <1>14
  <1>21. \A i, j \in ids : place[i] = place[j] => i = j
    BY <1>13, <1>15
  <1>22. SyncedRows(rows, place, list, others)
    BY <1>13, <1>17, <1>18, <1>19, <1>20, <1>21, <1>26, <1>27 DEF SyncedRows
  <1>28. DOMAIN rows \subseteq 1 .. nextLink + n - 1
    BY <1>3, <1>7, <1>16, <1>18
  <1>23. QED
    BY <1>1, <1>7, <1>22, <1>25, <1>28 DEF n, added

(* The others follow their leader in the order of the list.                 *)
LEMMA DeputiesFollow ==
    ASSUME NEW list \in Lists, NEW rows, NEW place, SyncedRows(rows, place, list, {}),
           NEW i \in Deputies(rows)
    PROVE  /\ place[i] - 2 \in Nat
           /\ Rank(rows, Deputies(rows), i) = place[i] - 2
  <1> DEFINE D == Deputies(rows)
             before == {j \in D : Before(rows, j, i)}
             f == [j \in before |-> place[j]]
  <1>1. list \in Seq(Managers) /\ DOMAIN list = 1 .. Len(list) /\ Len(list) \in Nat
    BY ManagerOrderAssumption
  <1>2. \A j \in DOMAIN rows : place[j] \in 1 .. Len(list) /\ (j \in D <=> place[j] > 1)
    BY <1>1 DEF SyncedRows, Deputies
  <1>3. \A j \in D : j \in DOMAIN rows /\ rows[j].order = place[j] - 2
    BY <1>2 DEF SyncedRows, Deputies
  <1>4. \A j, k \in D : place[j] = place[k] => j = k
    BY <1>3 DEF SyncedRows
  <1> HIDE DEF D
  <1>5. \A j \in D : Before(rows, j, i) <=> place[j] < place[i]
    <2>1. i \in D
      BY DEF D
    <2>2. ASSUME NEW j \in D
          PROVE  Before(rows, j, i) <=> place[j] < place[i]
      <3>1. /\ place[j] \in Int /\ place[i] \in Int
            /\ rows[j].order = place[j] - 2 /\ rows[i].order = place[i] - 2
        BY <1>1, <1>2, <1>3, <2>1
      <3>2. rows[j].order < rows[i].order <=> place[j] < place[i]
        BY <3>1
      <3>3. rows[j].order = rows[i].order => j = i
        BY <1>4, <2>1, <3>1
      <3>4. Sortable(rows) /\ i \in Nat
        BY <1>3, <2>1 DEF SyncedRows, Sortable
      <3>5. QED
        BY <3>2, <3>3, <3>4 DEF Before
    <2>3. QED
      BY <2>2
  <1>6. place[i] \in 2 .. Len(list)
    BY <1>1, <1>2, <1>3 DEF D
  <1>7. \A j \in before : place[j] \in 2 .. place[i] - 1
    <2>1. \A j \in D : place[j] \in 2 .. Len(list)
      BY <1>1, <1>2, <1>3
    <2>2. QED
      BY <1>1, <1>5, <1>6, <2>1
  <1>8. \A k \in 2 .. place[i] - 1 : \E j \in before : place[j] = k
    <2>1. ASSUME NEW k \in 2 .. place[i] - 1
          PROVE  \E j \in before : place[j] = k
      <3>1. k \in DOMAIN list /\ k > 1 /\ k < place[i]
        BY <1>1, <1>6
      <3>2. PICK j \in DOMAIN rows : place[j] = k
        BY <3>1 DEF SyncedRows
      <3>3. j \in D
        BY <1>2, <3>1, <3>2
      <3>4. QED
        BY <1>5, <3>1, <3>2, <3>3
    <2>2. QED
      BY <2>1
  <1>9. f \in Bijection(before, 2 .. place[i] - 1)
    <2>1. \A j, k \in before : f[j] = f[k] => j = k
      BY <1>4
    <2> HIDE DEF before
    <2>2. f \in [before -> 2 .. place[i] - 1]
      BY <1>7
    <2>3. f \in Injection(before, 2 .. place[i] - 1)
      BY <2>1, <2>2 DEF Injection, IsInjective
    <2>4. f \in Surjection(before, 2 .. place[i] - 1)
      BY <1>8, <2>2 DEF Surjection
    <2>5. QED
      BY <2>3, <2>4 DEF Bijection
  <1>10. IsFiniteSet(before)
    <2>1. before \subseteq DOMAIN rows
      BY <1>3
    <2>2. IsFiniteSet(DOMAIN rows)
      BY DEF SyncedRows, Sortable
    <2>3. QED
      BY <2>1, <2>2, FS_Subset
  <1>11. Cardinality(2 .. place[i] - 1) = Cardinality(before)
    BY <1>9, <1>10, FS_Bijection DEF ExistsBijection
  <1>12. Cardinality(2 .. place[i] - 1) = place[i] - 2
    <2>1. place[i] - 1 \in Int /\ 2 \in Int
      BY <1>1, <1>6
    <2>2. Cardinality(2 .. place[i] - 1) = IF 2 > place[i] - 1 THEN 0 ELSE place[i] - 1 - 2 + 1
      BY <2>1, FS_Interval
    <2>3. QED
      BY <1>1, <1>6, <2>2
  <1>13. QED
    BY <1>1, <1>6, <1>11, <1>12 DEF Rank, D

(* However the rows were before, after sync they show the list.             *)
LEMMA SyncedShows ==
    ASSUME ManagerInv, NEW list \in Lists
    PROVE  Shows(Synced(list, DOMAIN links, DOMAIN links), list)
  <1> DEFINE new == Synced(list, DOMAIN links, DOMAIN links)
  <1>1. PICK rows, place : /\ SyncedRows(rows, place, list, {})
                           /\ new = Normalized(rows, Deputies(rows))
    <2> DEFINE all == DOMAIN links
               D0 == all \ all
    <2>1. all \in SUBSET DOMAIN links /\ D0 = {} /\ \A i \in DOMAIN links \ all : FALSE
      OBVIOUS
    <2>2. \E rows, place : /\ SyncedRows(rows, place, list, DOMAIN links \ all)
                           /\ Synced(list, all, all) = Normalized(rows, Deputies(rows))
      <3> HIDE DEF all
      <3>1. QED
        BY <2>1, SyncRows
    <2>3. QED
      BY <2>1, <2>2
  <1> DEFINE D == Deputies(rows)
             L == Listing(new, D)
  <1>2. list \in Seq(Managers) /\ DOMAIN list = 1 .. Len(list) /\ Len(list) \in Nat
    BY ManagerOrderAssumption
  <1>3. /\ DOMAIN new = DOMAIN rows
        /\ \A i \in DOMAIN rows : new[i].user = rows[i].user /\ new[i].primary = rows[i].primary
    BY <1>1, NormalizedApart DEF SyncedRows, SameButOrder
  <1>4. \A i \in D : new[i].order = Rank(rows, D, i)
    BY <1>1, NormalizedOrders DEF SyncedRows, Deputies
  <1>5. Sortable(new)
    <2>1. D \in SUBSET DOMAIN rows
      BY DEF Deputies
    <2>2. \A i \in DOMAIN rows : new[i].order \in Nat
      BY <1>1, <2>1, NormalizedNumbers DEF SyncedRows
    <2>3. QED
      BY <1>1, <1>3, <2>2 DEF SyncedRows, Sortable
  <1> HIDE DEF new
  <1>6. Deputies(new) = D
    BY <1>3 DEF Deputies
  <1>7. CASE list = <<>>
    <2>1. DOMAIN rows = {}
      BY <1>1, <1>2, <1>7 DEF SyncedRows
    <2>2. QED
      BY <1>3, <1>7, <2>1 DEF Shows, new
  <1>8. CASE list # <<>>
    <2>1. 1 \in DOMAIN list /\ Head(list) = list[1]
      BY <1>2, <1>8
    <2>2. {new[i].user : i \in DOMAIN new \ D} = {Head(list)}
      <3>1. \A i \in DOMAIN rows \ D : new[i].user = list[1]
        BY <1>1, <1>3 DEF SyncedRows, Deputies
      <3>2. PICK i \in DOMAIN rows : place[i] = 1
        BY <1>1, <2>1 DEF SyncedRows
      <3>3. i \notin D
        BY <1>1, <3>2 DEF SyncedRows, Deputies
      <3>4. QED
        BY <1>3, <2>1, <3>1, <3>2, <3>3
    <2>3. D \in SUBSET DOMAIN rows /\ D \in SUBSET DOMAIN new
      BY <1>3 DEF Deputies
    <2>4. \A i \in D : place[i] - 2 \in Nat /\ Rank(rows, D, i) = place[i] - 2
      BY <1>1, DeputiesFollow
    <2> HIDE DEF D
    <2>5. \A i \in D : Rank(new, D, i) = place[i] - 2
      <3>0. Sortable(rows)
        BY <1>1 DEF SyncedRows
      <3>1. ASSUME NEW i \in D, NEW j \in D
            PROVE  Before(new, j, i) <=> Before(rows, j, i)
        <4>1. /\ Before(rows, j, i) <=> Rank(rows, D, j) < Rank(rows, D, i)
              /\ Rank(rows, D, j) = Rank(rows, D, i) => j = i
          BY <2>3, <3>0, RankGrows
        <4>2. new[i].order = Rank(rows, D, i) /\ new[j].order = Rank(rows, D, j)
          BY <1>4
        <4>3. i \in Nat /\ j \in Nat
          BY <1>5, <2>3 DEF Sortable
        <4>4. QED
          BY <4>1, <4>2, <4>3 DEF Before
      <3>2. \A i \in D : {j \in D : Before(new, j, i)} = {j \in D : Before(rows, j, i)}
        BY <3>1
      <3>3. \A i \in D : Rank(new, D, i) = Rank(rows, D, i)
        BY <3>2 DEF Rank
      <3>4. QED
        BY <2>4, <3>3
    <2>6. /\ L \in Seq(D) /\ Len(L) = Cardinality(D) /\ DOMAIN L = 1 .. Len(L) /\ Len(L) \in Nat
          /\ \A k \in 1 .. Len(L) : L[k] \in D /\ Rank(new, D, L[k]) = k - 1
          /\ \A i \in D : Rank(new, D, i) + 1 \in 1 .. Len(L)
      BY <1>5, <2>3, ListingPlaces
    <2> HIDE DEF L
    <2>7. \A k \in 1 .. Len(L) : /\ place[L[k]] = k + 1
                                 /\ k + 1 \in DOMAIN list
                                 /\ new[L[k]].user = list[k + 1]
      <3>1. ASSUME NEW k \in 1 .. Len(L)
            PROVE  place[L[k]] = k + 1
        <4>1. L[k] \in D /\ place[L[k]] - 2 = k - 1 /\ place[L[k]] \in DOMAIN list
          BY <1>1, <2>3, <2>5, <2>6 DEF SyncedRows
        <4>2. place[L[k]] \in Int
          BY <1>2, <4>1
        <4>3. QED
          BY <4>1, <4>2
      <3>2. \A k \in 1 .. Len(L) : L[k] \in DOMAIN rows
        BY <2>3, <2>6
      <3>3. QED
        BY <1>1, <1>3, <3>1, <3>2 DEF SyncedRows
    <2>8. Len(L) = Len(list) - 1
      <3>1. Len(L) <= Len(list) - 1
        <4>1. CASE Len(L) = 0
          BY <1>2, <2>1, <4>1
        <4>2. CASE Len(L) # 0
          <5>1. Len(L) \in 1 .. Len(L)
            BY <2>6, <4>2
          <5>2. QED
            BY <1>2, <2>6, <2>7, <5>1
        <4>3. QED
          BY <4>1, <4>2
      <3>2. Len(list) - 1 <= Len(L)
        <4>1. CASE Len(list) = 1
          BY <2>6, <4>1
        <4>2. CASE Len(list) # 1
          <5>1. Len(list) \in DOMAIN list /\ Len(list) > 1
            BY <1>2, <2>1, <4>2
          <5>2. PICK i \in DOMAIN rows : place[i] = Len(list)
            BY <1>1, <5>1 DEF SyncedRows
          <5>3. i \in D
            BY <1>1, <5>1, <5>2 DEF SyncedRows, Deputies, D
          <5>4. Len(list) - 2 + 1 \in 1 .. Len(L)
            BY <2>5, <2>6, <5>2, <5>3
          <5>5. QED
            BY <1>2, <2>6, <5>4
        <4>3. QED
          BY <4>1, <4>2
      <3>3. QED
        BY <1>2, <2>6, <3>1, <3>2
    <2>9. Tail(list) = [k \in 1 .. Len(list) - 1 |-> list[k + 1]]
      <3>1. /\ Tail(list) \in Seq(Managers) /\ Len(Tail(list)) = Len(list) - 1
            /\ \A k \in 1 .. Len(Tail(list)) : Tail(list)[k] = list[k + 1]
        BY <1>2, <1>8, HeadTailProperties
      <3> DEFINE tail == Tail(list)
      <3> HIDE DEF tail
      <3>2. tail \in Seq(Managers) => tail = [k \in 1 .. Len(tail) |-> tail[k]]
        OBVIOUS
      <3>3. QED
        BY <3>1, <3>2 DEF tail
    <2>10. [k \in DOMAIN L |-> new[L[k]].user] = Tail(list)
      BY <2>6, <2>7, <2>8, <2>9
    <2>11. QED
      BY <1>6, <1>8, <2>2, <2>10 DEF Shows, L, new
  <1>9. QED
    BY <1>7, <1>8

(* sync hands out the ids it takes, keeps the rows others have locked, and  *)
(* leaves one row marked at most, if it could clear all that it had not     *)
(* locked.                                                                  *)
LEMMA SyncKeeps ==
    ASSUME ManagerInv, NEW c \in Clients, Sync(c)
    PROVE  ManagerInv'
  <1> DEFINE list == calls[c].list
             held == calls[c].held
             seen == calls[c].seen
             others == DOMAIN links \ held
             n == Cardinality(ToAdd(list, held))
  <1>1. CallOK(calls[c], links, nextLink) /\ calls[c].step = "sync" /\ ~Creating(c)
    BY DEF ManagerInv, CallInv, Sync, Creating
  <1>2. list \in Lists /\ held \in SUBSET DOMAIN links
    BY <1>1 DEF CallOK
  <1>3. /\ \A i \in others : UserOf(i) \notin ToSet(list)
        /\ links' = Synced(list, held, seen) /\ nextLink' = nextLink + n
        /\ Finish(c) /\ muddled' = Overtaken(held \cup seen)
        /\ \A d \in Clients \ {c} : calls[d].held \cap held = {}
    BY DEF Sync, Free
  <1>4. PICK rows, place :
          /\ SyncedRows(rows, place, list, others)
          /\ \A i \in others : rows[i].primary => i \notin seen
          /\ links' = Normalized(rows, Deputies(rows))
          /\ n \in Nat
          /\ DOMAIN rows \subseteq 1 .. nextLink + n - 1
    BY <1>2, <1>3, SyncRows
  <1> HIDE DEF n
  <1>5. IsRows(rows) /\ Sortable(rows) /\ OneRowEach(rows) /\ others \subseteq DOMAIN rows
    BY <1>4 DEF SyncedRows
  <1>6. SameButOrder(rows, links') /\ \A i \in DOMAIN rows : links'[i].order \in Nat
    <2>1. Deputies(rows) \in SUBSET DOMAIN rows
      BY DEF Deputies
    <2>2. QED
      BY <1>4, <1>5, <2>1, NormalizedApart, NormalizedNumbers
  <1>7. DOMAIN links' = DOMAIN rows /\ IsRows(links') /\ OneRowEach(links')
    BY <1>5, <1>6 DEF SameButOrder, OneRowEach
  <1>8. OrderInv'
    <2>1. nextLink' \in Nat \ {0} /\ DOMAIN links' \subseteq 1 .. nextLink' - 1
      BY <1>3, <1>4, <1>7 DEF ManagerInv, OrderInv
    <2>2. QED
      BY <1>6, <1>7, <2>1 DEF OrderInv
  <1>9. CallInv'
    <2>1. \A d \in Clients \ {c} : calls[d].held \subseteq DOMAIN links'
      BY <1>3, <1>5, <1>7 DEF ManagerInv, CallInv, CallOK
    <2>2. nextLink' \in Nat /\ nextLink <= nextLink'
      BY <1>3, <1>4 DEF ManagerInv, OrderInv
    <2>3. \A d \in Clients \ {c} : CallOK(calls[d], links', nextLink')
      BY <2>1, <2>2, CallsStay DEF ManagerInv
    <2>4. QED
      BY <1>3, <2>3, CallEnds DEF ManagerInv
  <1>10. CASE muddled'
    BY <1>7, <1>8, <1>9, <1>10 DEF ManagerInv, LinkInv
  <1>11. CASE ~muddled'
    <2>1. others \subseteq seen
      BY <1>3, <1>11 DEF Overtaken
    <2>2. \A i \in DOMAIN rows : rows[i].primary => i \in DOMAIN rows \ others /\ place[i] = 1
      BY <1>4, <2>1 DEF SyncedRows
    <2>3. \A i, j \in DOMAIN rows : rows[i].primary /\ rows[j].primary => i = j
      BY <1>4, <2>2 DEF SyncedRows
    <2>4. AtMostOne(LeadersIn(links', Being'))
      BY <1>6, <1>7, <2>3 DEF SameButOrder, AtMostOne, LeadersIn
    <2>5. QED
      BY <1>7, <1>8, <1>9, <2>4 DEF ManagerInv, LinkInv
  <1>12. QED
    BY <1>10, <1>11

(* Every step keeps the invariant.                                          *)
LEMMA ManagerInvKept ==
    ASSUME ManagerInv, [LinkNext]_linkVars
    PROVE  ManagerInv'
  <1>1. CASE UNCHANGED linkVars
    BY <1>1 DEF linkVars, ManagerInv, LinkInv, CallInv, OrderInv, Being, Creating
  <1>2. ASSUME NEW c \in Clients, LinkStep(c)
        PROVE  ManagerInv'
    <2>1. CASE \E u \in Managers, primary \in BOOLEAN, order \in 0 .. MaxOrder \cup {AppendOrder} :
                 CreateManager(c, u, primary, order)
      BY <2>1, CreateKeeps
    <2>2. CASE \/ AskUnset(c) \/ AskPrimary(c) \/ LockLinks(c)
               \/ \E list \in Lists : LookForRows(c, list)
               \/ \E i \in DOMAIN links : Read(c, i)
      BY <2>2, AsksKeep
    <2>3. CASE UnsetOthers(c) \/ Sync(c) \/ SetPrimary(c) \/ Abort(c)
      BY <2>3, UnsetKeeps, SyncKeeps, SetPrimaryKeeps, AbortKeeps
    <2>4. CASE \E order \in 0 .. MaxOrder \cup {calls[c].row.order}, primary \in BOOLEAN :
                 Put(c, order, primary)
      BY <2>4, PutKeeps
    <2>5. CASE MoveUp(c) \/ MoveDown(c)
      <3>1. 0 \in Nat
        OBVIOUS
      <3>2. QED
        BY <2>5, <3>1, MoveKeeps
    <2>6. ASSUME NEW position \in 0 .. MaxLink, MoveTo(c, position)
          PROVE  ManagerInv'
      <3>1. position \in Nat
        BY ManagerOrderAssumption
      <3>2. QED
        BY <2>6, <3>1, MoveKeeps
    <2>7. QED
      BY <1>2, <2>1, <2>2, <2>3, <2>4, <2>5, <2>6 DEF LinkStep
  <1>3. CASE \E i \in DOMAIN links : Destroy(i)
    BY <1>3, DestroyKeeps
  <1>4. CASE \E list \in Lists : Reorder(list)
    BY <1>4, ReorderKeeps
  <1>5. CASE DeleteAll
    BY <1>5, DeleteAllKeeps
  <1>6. QED
    BY <1>1, <1>2, <1>3, <1>4, <1>5 DEF LinkNext

(* Ids and sort_orders are numbers, a user has one row, rows that a sync    *)
(* has locked stay, and but for muddled marks one row leads, however        *)
(* requests overlap.                                                        *)
THEOREM RowsCanBeSorted == LinkSpec => []ManagerInv
  <1>1. LinkInit => ManagerInv
    BY NoCallOK DEF LinkInit, ManagerInv, LinkInv, CallInv, OrderInv, IsRows, OneRowEach, AtMostOne, LeadersIn
  <1>2. ManagerInv /\ [LinkNext]_linkVars => ManagerInv'
    BY ManagerInvKept
  <1>3. QED
    BY <1>1, <1>2, PTL DEF LinkSpec

(* However set-primary, syncs, creations and PUTs overlap, a branch has one *)
(* leader at most, from a clearing that no row escapes on until a PUT marks *)
(* another row or a creation breaks off.                                    *)
THEOREM BranchesHaveOneLeader == LinkSpec => []OneLeader
  <1>1. ManagerInv => OneLeader
    BY AtMostOneCardinality DEF ManagerInv, LinkInv, LeadersIn, OneLeader
  <1>2. QED
    BY <1>1, RowsCanBeSorted, PTL

(* After sync the listing shows the list, whatever rows there were before.  *)
THEOREM SyncedListsAreShown == LinkSpec => []SyncShowsTheList
  <1>1. ManagerInv => SyncShowsTheList
    BY SyncedShows DEF SyncShowsTheList
  <1>2. QED
    BY <1>1, RowsCanBeSorted, PTL

-----------------------------------------------------------------------------
(* Who keeps its place.                                                     *)

(* Two neighbours that exchange their sort_orders change the order of no    *)
(* row and another but of each other.                                       *)
LEMMA SwapNeighbours ==
    ASSUME IsRows(links), Sortable(links), Distinct(links),
           NEW a \in DOMAIN links, NEW b \in DOMAIN links, Swap(a, b),
           Rank(links, DOMAIN links, b) = Rank(links, DOMAIN links, a) + 1
    PROVE  SameOrder(DOMAIN links \ {a}) /\ SameOrder(DOMAIN links \ {b})
  <1> DEFINE rank(i) == Rank(links, DOMAIN links, i)
             now(i) == links[i].order
             new(i) == links'[i].order
  <1>1. \A i \in DOMAIN links : rank(i) \in Nat /\ now(i) \in Nat /\ i \in Nat
    BY RankGrows DEF Sortable
  <1>2. \A i, j \in DOMAIN links : /\ Before(links, i, j) <=> rank(i) < rank(j)
                                   /\ rank(i) = rank(j) => i = j
    BY RankGrows
  <1>3. \A i, j \in DOMAIN links : now(i) = now(j) => i = j
    BY DEF Distinct
  <1>4. \A i, j \in DOMAIN links : Before(links, i, j) <=> now(i) < now(j)
    <2>1. \A i, j \in DOMAIN links : Before(links, i, j) <=> now(i) < now(j) \/ (now(i) = now(j) /\ i < j)
      BY DEF Before
    <2> HIDE DEF now
    <2>2. QED
      BY <1>1, <1>3, <2>1
  <1>5. /\ new(a) = now(b) /\ new(b) = now(a)
        /\ \A i \in DOMAIN links \ {a, b} : new(i) = now(i)
    BY SwappedOrders
  <1>6. \A i, j \in DOMAIN links : Before(links', i, j) <=> new(i) < new(j) \/ (new(i) = new(j) /\ i < j)
    BY DEF Before
  <1> HIDE DEF rank, now, new
  <1>7. \A i, j \in DOMAIN links : now(i) < now(j) <=> rank(i) < rank(j)
    BY <1>2, <1>4
  <1>8. \A i, j \in DOMAIN links : new(i) = new(j) => i = j
    BY <1>3, <1>5
  <1>9. \A i, j \in DOMAIN links : Before(links', i, j) <=> new(i) < new(j)
    <2>1. \A i \in DOMAIN links : new(i) \in Nat
      BY <1>1, <1>5
    <2>2. QED
      BY <1>1, <1>6, <1>8, <2>1
  <1>10. rank(b) = rank(a) + 1
    BY DEF rank
  <1>11. \A i \in DOMAIN links \ {a, b} : /\ rank(i) < rank(a) <=> rank(i) < rank(b)
                                          /\ rank(a) < rank(i) <=> rank(b) < rank(i)
    <2>1. ASSUME NEW i \in DOMAIN links \ {a, b}
          PROVE  /\ rank(i) < rank(a) <=> rank(i) < rank(b)
                 /\ rank(a) < rank(i) <=> rank(b) < rank(i)
      <3>1. rank(i) # rank(a) /\ rank(i) # rank(b)
        BY <1>2
      <3>2. rank(i) \in Nat /\ rank(a) \in Nat /\ rank(b) \in Nat
        BY <1>1
      <3>3. QED
        BY <1>10, <3>1, <3>2
    <2>2. QED
      BY <2>1
  <1>12. \A i \in DOMAIN links \ {a, b} : /\ now(i) < now(a) <=> now(i) < now(b)
                                          /\ now(a) < now(i) <=> now(b) < now(i)
    BY <1>7, <1>11
  <1>13. ASSUME NEW i \in DOMAIN links, NEW j \in DOMAIN links, ~({i, j} = {a, b})
         PROVE  new(i) < new(j) <=> now(i) < now(j)
    <2>1. CASE i = j
      BY <1>1, <1>5, <2>1
    <2>2. CASE i # j /\ i \notin {a, b} /\ j \notin {a, b}
      BY <1>5, <2>2
    <2>3. CASE i \in {a, b} /\ j \notin {a, b}
      <3>0. j \in DOMAIN links \ {a, b}
        BY <2>3
      <3>1. new(j) = now(j)
        BY <1>5, <3>0
      <3>2. now(a) < now(j) <=> now(b) < now(j)
        BY <1>12, <3>0
      <3>3. i = a \/ i = b
        BY <2>3
      <3>4. QED
        BY <1>5, <3>1, <3>2, <3>3
    <2>4. CASE i \notin {a, b} /\ j \in {a, b}
      <3>0. i \in DOMAIN links \ {a, b}
        BY <2>4
      <3>1. new(i) = now(i)
        BY <1>5, <3>0
      <3>2. now(i) < now(a) <=> now(i) < now(b)
        BY <1>12, <3>0
      <3>3. j = a \/ j = b
        BY <2>4
      <3>4. QED
        BY <1>5, <3>1, <3>2, <3>3
    <2>5. QED
      BY <1>13, <2>1, <2>2, <2>3, <2>4
  <1>14. QED
    BY <1>4, <1>9, <1>13 DEF SameOrder

(* Destroying a row keeps the order of the others.                          *)
LEMMA DestroyKeepsOrder ==
    ASSUME ManagerInv, NEW k \in DOMAIN links, Destroy(k)
    PROVE  SameOrder(DOMAIN links \ {k})
  <1> DEFINE S == DOMAIN links \ {k}
             rest == [j \in S |-> links[j]]
  <1>1. IsRows(rest) /\ Sortable(rest) /\ DOMAIN rest = S
    BY LinksSortable, FS_Subset DEF ManagerInv, LinkInv, IsRows, Sortable
  <1>2. \A i, j \in S : Before(links, i, j) <=> Before(rest, i, j)
    BY DEF Before
  <1>3. links' = Normalized(rest, S)
    BY DEF Destroy
  <1> HIDE DEF rest
  <1>4. \A i \in S : links'[i].order = Rank(rest, S, i)
    BY <1>1, <1>3, NormalizedOrders
  <1>5. \A i, j \in S : /\ Rank(rest, S, i) \in Nat
                        /\ Before(rest, i, j) <=> Rank(rest, S, i) < Rank(rest, S, j)
                        /\ Rank(rest, S, i) = Rank(rest, S, j) => i = j
    BY <1>1, RankGrows
  <1>6. \A i \in S : i \in Nat
    BY <1>1 DEF Sortable
  <1> HIDE DEF S
  <1>7. \A i, j \in S : Before(links', i, j) <=> Rank(rest, S, i) < Rank(rest, S, j)
    BY <1>4, <1>5, <1>6 DEF Before
  <1>8. QED
    BY <1>2, <1>5, <1>7 DEF SameOrder, S

(* Moving a row to another place of the whole list keeps the order of the   *)
(* others.                                                                  *)
LEMMA MovedKeepsOrder ==
    ASSUME IsRows(links), Sortable(links),
           NEW p \in 1 .. Len(Listing(links, DOMAIN links)),
           NEW target \in 1 .. Len(Listing(links, DOMAIN links)),
           links' = Numbered(links, Moved(Listing(links, DOMAIN links), p, target))
    PROVE  SameOrder(DOMAIN links \ {Listing(links, DOMAIN links)[p]})
  <1> DEFINE D == DOMAIN links
             L == Listing(links, D)
             n == Len(L)
             M == Moved(L, p, target)
             rank(i) == Rank(links, D, i)
             from(k) == IF k < target THEN IF k < p THEN k ELSE k + 1
                        ELSE IF k = target THEN p
                        ELSE IF k - 1 < p THEN k - 1 ELSE k
             rest(k) == IF k < p THEN k ELSE k - 1
             to(k) == IF rest(k) < target THEN rest(k) ELSE rest(k) + 1
  <1>1. /\ L \in Seq(D) /\ n \in Nat
        /\ \A k \in 1 .. n : L[k] \in D /\ rank(L[k]) = k - 1
        /\ \A i \in D : rank(i) + 1 \in 1 .. n /\ L[rank(i) + 1] = i
    BY ListingPlaces
  <1>2. \A i, j \in D : /\ rank(i) \in Nat
                        /\ Before(links, i, j) <=> rank(i) < rank(j)
                        /\ rank(i) = rank(j) => i = j
    BY RankGrows
  <1>3. \A i \in D : i \in Nat
    BY DEF Sortable
  <1>4. links' = Numbered(links, M) /\ p \in 1 .. n /\ target \in 1 .. n
    OBVIOUS
  <1> HIDE DEF L, n, rank
  <1>5. /\ M \in Seq(D) /\ Len(M) = n
        /\ \A k \in 1 .. n :
             M[k] = IF k < target THEN IF k < p THEN L[k] ELSE L[k + 1]
                    ELSE IF k = target THEN L[p]
                    ELSE IF k - 1 < p THEN L[k - 1] ELSE L[k]
    BY <1>1, <1>4, MovedPlaces DEF n
  <1>6. \A k \in 1 .. n : from(k) \in 1 .. n
    BY <1>1, <1>4
  <1>7. ASSUME NEW k \in 1 .. n, NEW l \in 1 .. n, from(k) = from(l)
        PROVE  k = l
    <2>1. n \in Nat /\ k \in Nat /\ l \in Nat /\ p \in Nat /\ target \in Nat
      BY <1>1, <1>4
    <2>2. CASE k < target
      BY <1>7, <2>1, <2>2
    <2>3. CASE k = target
      BY <1>7, <2>1, <2>3
    <2>4. CASE k > target
      BY <1>7, <2>1, <2>4
    <2>5. QED
      BY <2>1, <2>2, <2>3, <2>4
  <1>8. \A k \in 1 .. n : M[k] = L[from(k)]
    BY <1>5
  <1>9. \A k \in 1 .. n : k # p => to(k) \in 1 .. n /\ from(to(k)) = k
    BY <1>1, <1>4
  <1>10. ASSUME NEW k \in 1 .. n, NEW l \in 1 .. n, k # p, l # p
         PROVE  k < l <=> to(k) < to(l)
    <2>1. n \in Nat /\ k \in Nat /\ l \in Nat /\ p \in Nat /\ target \in Nat
      BY <1>1, <1>4
    <2>2. rest(k) \in Nat /\ rest(l) \in Nat /\ (k < l <=> rest(k) < rest(l))
      BY <1>4, <1>10, <2>1
    <2> HIDE DEF rest
    <2>3. QED
      BY <2>1, <2>2
  <1> HIDE DEF from, to, rest, M
  <1>11. \A k, l \in 1 .. n : M[k] = M[l] => k = l
    <2>1. \A k, l \in 1 .. n : L[k] = L[l] => k = l
      BY <1>1
    <2>2. QED
      BY <1>6, <1>7, <1>8, <2>1
  <1>12. ASSUME NEW i \in D, i # L[p]
         PROVE  links'[i].order = to(rank(i) + 1) - 1
    <2> DEFINE k == to(rank(i) + 1)
    <2>1. rank(i) + 1 \in 1 .. n /\ rank(i) + 1 # p
      BY <1>1, <1>12
    <2>2. k \in 1 .. n /\ M[k] = i
      BY <1>1, <1>8, <1>9, <2>1
    <2> HIDE DEF k
    <2>3. PlaceIn(M, M[k]) = k
      BY <1>5, <1>11, <2>2, FoundInList
    <2>4. i \in ToSet(M)
      BY <1>5, <2>2 DEF ToSet
    <2>5. links'[i].order = PlaceIn(M, i) - 1
      BY <1>4, <2>4, NumberedOrders
    <2>6. QED
      BY <2>2, <2>3, <2>5 DEF k
  <1>13. ASSUME NEW i \in D \ {L[p]}, NEW j \in D \ {L[p]}
         PROVE  Before(links, i, j) <=> Before(links', i, j)
    <2> DEFINE k == rank(i) + 1
               l == rank(j) + 1
    <2>1. k \in 1 .. n /\ l \in 1 .. n /\ k # p /\ l # p
      BY <1>1
    <2>2. to(k) \in 1 .. n /\ to(l) \in 1 .. n /\ (k < l <=> to(k) < to(l)) /\ (l < k <=> to(l) < to(k))
      BY <1>9, <1>10, <2>1
    <2>3. links'[i].order = to(k) - 1 /\ links'[j].order = to(l) - 1
      BY <1>12
    <2>4. Before(links, i, j) <=> k < l
      BY <1>2
    <2>5. k = l => i = j
      BY <1>2
    <2>6. i \in Nat /\ j \in Nat /\ n \in Nat
      BY <1>1, <1>3
    <2> HIDE DEF k, l
    <2>7. k \in Nat /\ l \in Nat /\ to(k) \in Nat /\ to(l) \in Nat
      BY <2>1, <2>2, <2>6
    <2>8. Before(links', i, j) <=> to(k) < to(l)
      BY <2>2, <2>3, <2>5, <2>6, <2>7 DEF Before
    <2>9. QED
      BY <2>2, <2>4, <2>8
  <1>14. QED
    BY <1>13 DEF SameOrder, L

(* A request that ends after reading its row is a move, a PUT or broken     *)
(* off.                                                                     *)
LEMMA AnsweredByItself ==
    ASSUME ManagerInv, LinkNext, NEW c \in Clients, calls[c].step = "read", calls'[c] = NoCall
    PROVE  \/ MoveUp(c) \/ MoveDown(c) \/ Abort(c)
           \/ \E position \in 0 .. MaxLink : MoveTo(c, position)
           \/ \E order, primary : Put(c, order, primary)
  <1>1. calls'[c].step = "none"
    BY NoCallOK
  <1>2. calls = [d \in Clients |-> calls[d]] /\ ~UNCHANGED calls
    BY <1>1 DEF ManagerInv, CallInv
  <1>3. PICK d \in Clients : LinkStep(d)
    BY <1>2 DEF LinkNext, Destroy, Reorder, DeleteAll
  <1>4. d = c
    <2> SUFFICES ASSUME d # c PROVE FALSE
      OBVIOUS
    <2>1. \A order, primary : Put(d, order, primary) => calls'[c].step = calls[c].step
      <3>1. ASSUME NEW order, NEW primary, Put(d, order, primary)
            PROVE  calls'[c].step = calls[c].step
        <4> DEFINE i == calls[d].link
                   forgets == [calls[c] EXCEPT !.seen = @ \ {i}, !.order = Restrict(@, DOMAIN @ \ {i})]
        <4>1. calls'[c] \in {calls[c], forgets}
          BY <3>1 DEF Put
        <4>2. forgets.step = calls[c].step
          BY DEF ManagerInv, CallInv, CallOK
        <4> HIDE DEF forgets
        <4>3. QED
          BY <4>1, <4>2
      <3>2. QED
        BY <3>1
    <2>2. Finish(d) => calls'[c] = calls[c]
      BY <1>2 DEF Finish
    <2>3. /\ AskUnset(d) \/ AskPrimary(d) \/ LockLinks(d) => calls'[c] = calls[c]
          /\ \A list : LookForRows(d, list) => calls'[c] = calls[c]
          /\ \A i : Read(d, i) => calls'[c] = calls[c]
          /\ \A u, primary, order : CreateManager(d, u, primary, order) => calls'[c] = calls[c]
      BY <1>2 DEF AskUnset, AskPrimary, LockLinks, LookForRows, Read, CreateManager
    <2>4. QED
      BY <1>1, <1>3, <2>1, <2>2, <2>3 DEF LinkStep, UnsetOthers, Sync, SetPrimary, Abort,
         MoveUp, MoveDown, MoveTo, Answer
  <1>5. QED
    <2>1. /\ ~AskUnset(c) /\ ~LockLinks(c) /\ ~UnsetOthers(c) /\ ~Sync(c) /\ ~SetPrimary(c)
          /\ \A list : ~LookForRows(c, list)
          /\ \A i : ~Read(c, i)
          /\ \A u, primary, order : ~CreateManager(c, u, primary, order)
      BY NoCallOK DEF AskUnset, LockLinks, UnsetOthers, Sync, SetPrimary, LookForRows, Read, CreateManager
    <2>2. ~AskPrimary(c)
      <3>1. AskPrimary(c) => calls'[c].step = "primary"
        BY <1>2 DEF AskPrimary, ManagerInv, CallInv, CallOK
      <3>2. QED
        BY <1>1, <3>1
    <2>3. QED
      BY <1>3, <1>4, <2>1, <2>2 DEF LinkStep

(* Moving a row changes the order of no two others.                         *)
LEMMA AnswerKeepsOrder ==
    ASSUME ManagerInv, LinkNext, NEW c \in Clients, calls[c].step = "read", calls'[c] = NoCall,
           links' # links, Distinct(links), Seen(c) = Listing(links, DOMAIN links)
    PROVE  SameOrder(DOMAIN links \ {calls[c].link})
  <1> DEFINE D == DOMAIN links
             L == Listing(links, D)
             p == Place(c)
             i == calls[c].link
  <1>1. IsRows(links) /\ Sortable(links)
    BY LinksSortable DEF ManagerInv, LinkInv
  <1>2. /\ L \in Seq(D) /\ Len(L) \in Nat
        /\ \A k \in 1 .. Len(L) : L[k] \in D /\ Rank(links, D, L[k]) = k - 1
    BY <1>1, ListingPlaces
  <1>3. Seen(c) = L
    OBVIOUS
  <1> HIDE DEF L
  <1>4. p \in 0 .. Len(L) /\ (p # 0 => L[p] = i)
    BY <1>2, <1>3, PlaceInList DEF Place
  <1>5. ASSUME NEW k \in 1 .. Len(L), k + 1 \in 1 .. Len(L), Swap(L[k], L[k + 1])
        PROVE  SameOrder(D \ {L[k]}) /\ SameOrder(D \ {L[k + 1]})
    <2>1. Rank(links, D, L[k + 1]) = Rank(links, D, L[k]) + 1
      BY <1>2, <1>5
    <2>2. QED
      BY <1>1, <1>2, <1>5, <2>1, SwapNeighbours
  <1>6. CASE MoveUp(c)
    <2>1. p > 1 /\ Swap(L[p - 1], i)
      BY <1>3, <1>6 DEF MoveUp
    <2>2. p - 1 \in 1 .. Len(L) /\ p - 1 + 1 = p /\ p \in 1 .. Len(L) /\ i = L[p]
      BY <1>2, <1>4, <2>1
    <2> HIDE DEF p, i
    <2>3. Swap(L[p - 1], L[p - 1 + 1])
      BY <2>1, <2>2
    <2>4. SameOrder(D \ {L[p - 1 + 1]})
      BY <1>5, <2>2, <2>3
    <2>5. QED
      BY <2>2, <2>4 DEF i
  <1>7. CASE MoveDown(c)
    <2>1. p \in 1 .. Len(L) - 1 /\ Swap(i, L[p + 1])
      BY <1>3, <1>7 DEF MoveDown
    <2>2. p \in 1 .. Len(L) /\ p + 1 \in 1 .. Len(L) /\ i = L[p]
      BY <1>2, <1>4, <2>1
    <2> HIDE DEF p, i
    <2>3. QED
      BY <1>5, <2>1, <2>2 DEF i
  <1>8. ASSUME NEW position \in 0 .. MaxLink, MoveTo(c, position)
        PROVE  SameOrder(D \ {i})
    <2> DEFINE target == Min({position + 1, Len(L)})
    <2>1. p \notin {0, target} /\ links' = Numbered(links, Moved(L, p, target))
      BY <1>3, <1>8 DEF MoveTo
    <2>2. p \in 1 .. Len(L) /\ i = L[p]
      BY <1>4, <2>1
    <2>3. {position + 1, Len(L)} \in SUBSET Nat /\ {position + 1, Len(L)} # {}
      BY <1>2, ManagerOrderAssumption
    <2>4. target \in {position + 1, Len(L)} /\ target <= Len(L)
      BY <2>3, Smallest
    <2>5. target \in 1 .. Len(L)
      BY <1>2, <2>2, <2>3, <2>4, ManagerOrderAssumption
    <2> HIDE DEF p, i, target
    <2>6. QED
      BY <1>1, <2>1, <2>2, <2>5, MovedKeepsOrder DEF L
  <1>9. ASSUME NEW order, NEW primary, Put(c, order, primary)
        PROVE  SameOrder(D \ {i})
    <2>1. \A j \in D \ {i} : links'[j] = links[j]
      BY <1>9 DEF Put
    <2>2. QED
      BY <2>1 DEF SameOrder, Before
  <1>10. ~Abort(c)
    BY DEF Abort
  <1>11. QED
    BY <1>6, <1>7, <1>8, <1>9, <1>10, AnsweredByItself

(* Moving a row, or destroying one, changes the order of no two others.     *)
THEOREM OthersStayInOrder == LinkSpec => OthersKeepTheirOrder
  <1> DEFINE Kept ==
        /\ \A c \in Clients :
             /\ calls[c].step = "read" /\ calls'[c] = NoCall /\ links' # links
             /\ Distinct(links) /\ Seen(c) = Listing(links, DOMAIN links)
             => SameOrder(DOMAIN links \ {calls[c].link})
        /\ \A k \in DOMAIN links \ DOMAIN links' : Destroy(k) => SameOrder(DOMAIN links \ {k})
  <1>1. ASSUME ManagerInv, [LinkNext]_linkVars
        PROVE  [Kept]_linkVars
    <2>1. CASE UNCHANGED linkVars
      BY <2>1
    <2>2. CASE LinkNext
      BY <1>1, <2>2, AnswerKeepsOrder, DestroyKeepsOrder
    <2>3. QED
      BY <1>1, <2>1, <2>2
  <1>2. ManagerInv /\ [LinkNext]_linkVars => [Kept]_linkVars
    BY <1>1
  <1>3. QED
    BY <1>2, RowsCanBeSorted, PTL DEF LinkSpec, OthersKeepTheirOrder

-----------------------------------------------------------------------------
(****************************************************************************)
(* Schedules.                                                               *)
(****************************************************************************)

(* Who has marked a row is about to clear the other marks.                  *)
WillClear(r) == plans[r].at \in {"default", "locked", "clear", "cleared"}
WillLook(r) == plans[r].at = "default"

OneMark == \A s, t \in Own(assigned) : s = t

(* One set_default at a time is past the lock.                              *)
LockHeld == \A r \in Planners : plans[r].at \in {"locked", "clear", "cleared"} => userLock = r

(* Its statement clears every mark but its own.                             *)
SeesAll ==
    \A r \in Planners : plans[r].at \in {"clear", "cleared"} =>
       Own(assigned) \subseteq plans[r].seen \cup {plans[r].id}

PlanInv ==
    /\ plans = [r \in Planners |-> plans[r]]
    /\ LockHeld
    /\ blind \/ OneMark \/ \E r \in Planners : WillClear(r)
    /\ blind \/ SeesAll \/ \E r \in Planners : WillLook(r)

-----------------------------------------------------------------------------

(* The employee has no schedule.                                            *)
LEMMA PlanInitially == ScheduleInit => PlanInv
  BY DEF ScheduleInit, PlanInv, OneMark, Own, LockHeld, SeesAll, NoPlan

(* A step of a planner that is not at set_default, and marks no row or sees *)
(* to it that the others are cleared.                                       *)
LEMMA MoreOrLess ==
  ASSUME PlanInv, NEW r \in Planners, ~WillClear(r), ~WillClear(r)' \/ WillLook(r)',
         plans' = [plans EXCEPT ![r] = plans'[r]],
         Own(assigned)' \subseteq Own(assigned) \/ WillLook(r)',
         UNCHANGED <<blind, userLock>>
  PROVE  PlanInv'
  <1>1. \A q \in Planners \ {r} : plans'[q] = plans[q]
    BY DEF PlanInv
  <1>2. plans' = [q \in Planners |-> plans'[q]]
    BY DEF PlanInv
  <1>3. LockHeld'
    BY <1>1 DEF PlanInv, LockHeld, WillClear, WillLook
  <1>4. CASE WillLook(r)'
    BY <1>2, <1>3, <1>4 DEF PlanInv, WillClear, WillLook
  <1>5. CASE ~WillLook(r)'
    <2>1. blind' \/ OneMark' \/ \E q \in Planners : WillClear(q)'
      BY <1>1, <1>5 DEF PlanInv, OneMark, WillClear
    <2>2. blind' \/ SeesAll' \/ \E q \in Planners : WillLook(q)'
      BY <1>1, <1>5 DEF PlanInv, SeesAll, WillClear, WillLook
    <2> QED
      BY <1>2, <1>3, <2>1, <2>2 DEF PlanInv
  <1> QED
    BY <1>4, <1>5

(* A row saved as the default is followed by set_default.                   *)
LEMMA SavedKeeps ==
  ASSUME PlanInv, NEW r \in Planners, NEW s, NEW flag \in BOOLEAN, ~WillClear(r), Saved(r, s, flag)
  PROVE  PlanInv'
  <1>1. assigned' = WithRow(s, flag) /\ UNCHANGED <<blind, userLock>>
    BY DEF Saved
  <1>2. CASE flag
    <2>1. plans' = [plans EXCEPT ![r] = [at |-> "default", id |-> s, seen |-> {}]]
      BY <1>2 DEF Saved, To
    <2>2. plans'[r].at = "default" /\ plans' = [plans EXCEPT ![r] = plans'[r]]
      BY <2>1 DEF PlanInv
    <2> QED
      BY <1>1, <2>2, MoreOrLess DEF WillLook
  <1>3. CASE ~flag
    <2>1. plans' = [plans EXCEPT ![r] = NoPlan]
      BY <1>3 DEF Saved, Rest
    <2>2. plans' = [plans EXCEPT ![r] = plans'[r]] /\ ~WillClear(r)'
      BY <2>1 DEF PlanInv, NoPlan, WillClear
    <2>3. Own(assigned)' \subseteq Own(assigned)
      BY <1>1, <1>3 DEF Own, WithRow
    <2> QED
      BY <1>1, <2>2, <2>3, MoreOrLess
  <1> QED
    BY <1>2, <1>3

(* set_default goes on: it takes the lock, which nobody holds, asks for the *)
(* defaults, and clears those that still are.                               *)
LEMMA DefaultGoesOn ==
  ASSUME PlanInv, NEW r \in Planners, LockUser(r) \/ AskDefaults(r) \/ ClearDefaults(r)
  PROVE  PlanInv'
  <1>0. Nobody \notin Planners
    BY ScheduleAssumption
  <1>1. /\ plans' = [q \in Planners |-> plans'[q]]
        /\ \A q \in Planners \ {r} : plans'[q] = plans[q]
        /\ WillClear(r)'
        /\ UNCHANGED <<assigned, blind>>
        /\ Own(assigned)' = Own(assigned)
    BY DEF LockUser, AskDefaults, ClearDefaults, To, PlanInv, WillClear, Own
  <1>2. blind' \/ OneMark' \/ \E q \in Planners : WillClear(q)'
    BY <1>1
  <1>3. CASE LockUser(r)
    <2>1. plans'[r].at = "locked" /\ userLock = Nobody /\ userLock' = r
      BY <1>3 DEF LockUser, To, PlanInv
    <2>2. \A q \in Planners : plans[q].at \notin {"locked", "clear", "cleared"}
      BY <1>0, <2>1 DEF PlanInv, LockHeld
    <2> QED
      BY <1>1, <1>2, <2>1, <2>2 DEF PlanInv, LockHeld, SeesAll
  <1>4. CASE AskDefaults(r)
    <2>1. /\ plans[r].at = "locked" /\ plans'[r].at = "clear" /\ UNCHANGED userLock
          /\ plans'[r].seen = Own(assigned)
      BY <1>4 DEF AskDefaults, To, PlanInv
    <2> QED
      BY <1>1, <1>2, <2>1 DEF PlanInv, LockHeld, SeesAll, WillLook
  <1>5. CASE ClearDefaults(r)
    <2>1. /\ plans[r].at = "clear" /\ plans'[r].at = "cleared" /\ UNCHANGED userLock
          /\ plans'[r].seen = plans[r].seen \cap Own(assigned) /\ plans'[r].id = plans[r].id
      BY <1>5 DEF ClearDefaults, To, PlanInv
    <2> QED
      BY <1>1, <1>2, <2>1 DEF PlanInv, LockHeld, SeesAll, WillLook
  <1> QED
    BY <1>3, <1>4, <1>5

(* A set_default that has seen every mark leaves one.                       *)
LEMMA MakeDefaultKeeps ==
  ASSUME PlanInv, NEW r \in Planners, MakeDefault(r)
  PROVE  PlanInv'
  <1>0. Nobody \notin Planners
    BY ScheduleAssumption
  <1> DEFINE s == plans[r].id
  <1>1. /\ plans[r].at = "cleared" /\ userLock' = Nobody
        /\ plans' = [q \in Planners |-> plans'[q]]
        /\ plans'[r] = NoPlan
        /\ \A q \in Planners \ {r} : plans'[q] = plans[q]
        /\ assigned' = Only(plans[r].seen, s)
        /\ blind' = (blind /\ Own(assigned') # {s})
    BY DEF MakeDefault, Rest, PlanInv
  <1>2. Own(assigned') = {s} \cup (Own(assigned) \ plans[r].seen)
    BY <1>1 DEF Own, Only
  <1>3. \A q \in Planners : plans'[q].at \notin {"locked", "clear", "cleared"}
    BY <1>1 DEF PlanInv, LockHeld, NoPlan
  <1>4. blind' \/ OneMark' \/ \E q \in Planners : WillClear(q)'
    <2>1. CASE \E q \in Planners : WillLook(q)
      BY <1>1, <2>1 DEF WillLook, WillClear
    <2>2. CASE blind
      BY <1>1, <2>2 DEF OneMark, Own
    <2>3. CASE SeesAll
      BY <1>1, <1>2, <2>3 DEF SeesAll, OneMark, Own
    <2> QED
      BY <2>1, <2>2, <2>3 DEF PlanInv
  <1> QED
    BY <1>1, <1>3, <1>4 DEF PlanInv, LockHeld, SeesAll

(* So does a bulk assignment, and a set_default that is clearing sees it.   *)
LEMMA WriteRowsKeeps ==
  ASSUME PlanInv, NEW r \in Planners, WriteRows(r)
  PROVE  PlanInv'
  <1> DEFINE s == plans[r].id
  <1>1. /\ plans[r].at = "bulk" /\ UNCHANGED userLock
        /\ plans' = [plans EXCEPT ![r] = plans'[r]]
        /\ plans' = [q \in Planners |-> plans'[q]]
        /\ plans'[r] = NoPlan
        /\ \A q \in Planners \ {r} : plans'[q] = plans[q]
    BY DEF WriteRows, Rest, PlanInv
  <1>2. CASE UNCHANGED <<assigned, blind>>
    BY <1>1, <1>2, MoreOrLess DEF WillClear, NoPlan, Own
  <1>3. CASE blind' = (Own(assigned') # {s} \/ Unseen(s))
    <2>1. LockHeld'
      BY <1>1 DEF PlanInv, LockHeld, NoPlan
    <2>2. CASE ~blind'
      <3>1. Own(assigned') = {s} /\ ~Unseen(s)
        BY <1>3, <2>2
      <3>2. OneMark'
        BY <3>1 DEF OneMark, Own
      <3>3. SeesAll'
        BY <1>1, <3>1 DEF SeesAll, Unseen, NoPlan, Own
      <3> QED
        BY <1>1, <2>1, <3>2, <3>3 DEF PlanInv
    <2> QED
      BY <1>1, <2>1, <2>2 DEF PlanInv
  <1> QED
    BY <1>2, <1>3 DEF WriteRows

(* Every step of a planner keeps the invariant.                             *)
LEMMA PlannerKeeps ==
  ASSUME PlanInv, NEW r \in Planners, PlanStep(r)
  PROVE  PlanInv'
  <1>0. /\ ~(NoPlan.at \in {"default", "locked", "clear", "cleared"})
        /\ \A at, s, seen : [at |-> at, id |-> s, seen |-> seen].at = at
    BY DEF NoPlan
  <1>1. ASSUME NEW at, NEW s, NEW seen, To(r, at, s, seen)
        PROVE  plans' = [plans EXCEPT ![r] = plans'[r]] /\ plans'[r].at = at
    BY <1>1 DEF PlanInv, To
  <1>2. ASSUME Rest(r)
        PROVE  /\ plans' = [plans EXCEPT ![r] = plans'[r]] /\ plans'[r] = NoPlan
               /\ plans' = [q \in Planners |-> plans'[q]]
               /\ \A q \in Planners \ {r} : plans'[q] = plans[q]
    BY <1>2 DEF PlanInv, Rest
  <1>3. ASSUME NEW s \in Plans, NEW flag \in BOOLEAN, Assign(r, s, flag)
        PROVE  PlanInv'
    BY <1>0, <1>3, SavedKeeps DEF Assign, WillClear
  <1>4. ASSUME NEW flag \in BOOLEAN, SavePlan(r, flag)
        PROVE  PlanInv'
    BY <1>4, SavedKeeps DEF SavePlan, WillClear
  <1>5. ASSUME NEW s \in Plans, LoadPlan(r, s)
        PROVE  PlanInv'
    BY <1>0, <1>1, <1>5, MoreOrLess DEF LoadPlan, WillClear, Own
  <1>6. ASSUME NEW s \in Plans, RemovePlan(r, s)
        PROVE  PlanInv'
    <2>1. Own(assigned)' \subseteq Own(assigned)
      BY <1>6 DEF RemovePlan, Own
    <2>2. plans' = [plans EXCEPT ![r] = plans'[r]] /\ ~WillClear(r) /\ ~WillClear(r)'
      BY <1>0, <1>6 DEF RemovePlan, PlanInv, WillClear
    <2> QED
      BY <1>6, <2>1, <2>2, MoreOrLess DEF RemovePlan
  <1>7. ASSUME NEW s \in Plans, AskRows(r, s)
        PROVE  PlanInv'
    BY <1>0, <1>1, <1>7, MoreOrLess DEF AskRows, WillClear, Own
  <1>8. CASE LockRows(r)
    <2>1. plans'[r].at = "bulk" /\ plans' = [plans EXCEPT ![r] = plans'[r]]
      BY <1>1, <1>8 DEF LockRows
    <2> QED
      BY <1>8, <2>1, MoreOrLess DEF LockRows, WillClear, Own
  <1>9. CASE GiveUpDefault(r)
    BY <1>0, <1>2, <1>9 DEF GiveUpDefault, PlanInv, LockHeld
  <1>10. CASE GiveUpBulk(r)
    BY <1>0, <1>2, <1>10, MoreOrLess DEF GiveUpBulk, WillClear, Own
  <1> QED
    BY <1>3, <1>4, <1>5, <1>6, <1>7, <1>8, <1>9, <1>10, DefaultGoesOn, MakeDefaultKeeps, WriteRowsKeeps
    DEF PlanStep

(* The requests to the company's schedules do not touch the employee's.     *)
LEMMA ShiftsApart ==
  ASSUME NEW c \in Clerks, ShiftStep(c)
  PROVE  UNCHANGED planVars
  BY DEF ShiftStep, CreateShift, SaveShift, LoadShift, DestroyShift, SetDefault, UnsetOtherShifts, SetThis,
         Look, Promote

(* So does every step of the module.                                        *)
LEMMA PlanKept == PlanInv /\ [ScheduleNext]_scheduleVars => PlanInv'
  <1> SUFFICES ASSUME PlanInv, [ScheduleNext]_scheduleVars PROVE PlanInv'
    OBVIOUS
  <1>1. CASE UNCHANGED planVars
    BY <1>1 DEF planVars, PlanInv, OneMark, Own, WillClear, WillLook, LockHeld, SeesAll
  <1>2. CASE PlanNext
    BY <1>2, PlannerKeeps DEF PlanNext
  <1> QED
    BY <1>1, <1>2, ShiftsApart DEF ScheduleNext, ShiftNext, scheduleVars

(* Unless blind: with two defaults some set_default is still to clear, and  *)
(* one that clears sees every default, or another is still to look.         *)
THEOREM PlanInvariant == ScheduleSpec => []PlanInv
  BY PlanInitially, PlanKept, PTL DEF ScheduleSpec

(* When no request is under way an employee has at most one default, but    *)
(* after a set_default that failed and a bulk assignment that had not seen  *)
(* the other default or was not seen by a set_default that was clearing.    *)
THEOREM EmployeesHaveOneDefault == ScheduleSpec => []OneShiftEach
  <1>1. PlanInv => OneShiftEach
    BY DEF PlanInv, OneMark, WillClear, WillLook, NoPlan, OneShiftEach
  <1> QED
    BY <1>1, PlanInvariant, PTL

-----------------------------------------------------------------------------
(* The company's schedules.                                                 *)

ShiftRow == [id : Nat, default : BOOLEAN]
DeskRow == [at : {"idle", "save", "unset", "set", "look", "promote"}, id : Nat]

(* A deleted schedule may come back, but with its own id only once.         *)
ShiftRows(rows, next) ==
    /\ rows \in Seq(ShiftRow)
    /\ \A i \in DOMAIN rows : rows[i].id < next
    /\ \A i, j \in DOMAIN rows : rows[i].id = rows[j].id => i = j

ShiftTyped ==
    /\ nextShift \in Nat
    /\ ShiftRows(shifts, nextShift)
    /\ desks \in [Clerks -> DeskRow]
    /\ \A d \in Clerks : desks[d].id < nextShift

(* Who leaves the company without a default looks for one, or sets one.     *)
AboutToSet(d) == desks[d].at \in {"unset", "set", "look", "promote"}

SomeDefault ==
    "none" \in doubt \/ shifts = <<>> \/ Defaults # {} \/ \E d \in Clerks : AboutToSet(d)

(* Without overlaps, two defaults only stand until the one request that is  *)
(* under way has cleared the marks and set the schedule it is about.        *)
Alone == \A d, e \in Clerks : desks[d] # NoDesk /\ desks[e] # NoDesk => d = e

AboutToClear(d) ==
    \/ desks[d].at = "unset"
    \/ desks[d].at = "set" /\ \A i \in Defaults : shifts[i].id = desks[d].id

OnlyDefault ==
    \/ "many" \in doubt
    \/ /\ Alone
       /\ AtMostOne(Defaults) \/ \E d \in Clerks : AboutToClear(d)
       /\ \A d \in Clerks : desks[d].at = "set" => AboutToClear(d)

ShiftInv == ShiftTyped /\ SomeDefault /\ OnlyDefault

-----------------------------------------------------------------------------

(* A new row, or one that comes back, is the last.                          *)
LEMMA ShiftAppended ==
  ASSUME ShiftTyped, NEW row \in ShiftRow, row.id \notin Living, NEW next \in Nat,
         row.id < next, nextShift <= next, shifts' = Append(shifts, row)
  PROVE  /\ ShiftRows(shifts', next)
         /\ shifts' # <<>>
         /\ ~row.default => Defaults' \subseteq Defaults
  <1>1. shifts \in Seq(ShiftRow) /\ DOMAIN shifts = 1..Len(shifts) /\ Len(shifts) \in Nat
    BY DEF ShiftTyped, ShiftRows
  <1>2. /\ shifts' \in Seq(ShiftRow)
        /\ shifts' # <<>>
        /\ Len(shifts') = Len(shifts) + 1
        /\ \A i \in 1..Len(shifts) : shifts'[i] = shifts[i]
        /\ shifts'[Len(shifts) + 1] = row
    BY <1>1, AppendProperties
  <1>3. /\ DOMAIN shifts' = 1..(Len(shifts) + 1)
        /\ \A i \in DOMAIN shifts' : i \in DOMAIN shifts \/ i = Len(shifts) + 1
    BY <1>1, <1>2
  <1>a. \A i \in DOMAIN shifts : shifts[i].id # row.id
    BY DEF Living
  <1>b. \A i \in DOMAIN shifts : shifts[i] \in ShiftRow
    BY <1>1
  <1>4. \A i \in DOMAIN shifts : shifts[i].id # row.id /\ shifts[i].id < nextShift /\ shifts[i].id \in Nat
    BY <1>a, <1>b DEF ShiftTyped, ShiftRows, ShiftRow
  <1>5. \A i \in DOMAIN shifts' : shifts'[i].id < next
    BY <1>1, <1>2, <1>3, <1>4 DEF ShiftTyped
  <1>6. \A i, j \in DOMAIN shifts' : shifts'[i].id = shifts'[j].id => i = j
    BY <1>1, <1>2, <1>3, <1>4 DEF ShiftTyped, ShiftRows
  <1>7. ~row.default => Defaults' \subseteq Defaults
    BY <1>1, <1>2, <1>3 DEF Defaults
  <1> QED
    BY <1>2, <1>5, <1>6, <1>7 DEF ShiftRows

(* Rows that change their mark only.                                        *)
LEMMA ShiftsMarked ==
  ASSUME ShiftTyped, DOMAIN shifts' = DOMAIN shifts, shifts' = [i \in DOMAIN shifts |-> shifts'[i]],
         \A i \in DOMAIN shifts : shifts'[i] \in ShiftRow /\ shifts'[i].id = shifts[i].id
  PROVE  ShiftRows(shifts', nextShift) /\ (shifts = <<>> => shifts' = <<>>)
  <1>1. shifts \in Seq(ShiftRow) /\ DOMAIN shifts = 1..Len(shifts) /\ Len(shifts) \in Nat
    BY DEF ShiftTyped, ShiftRows
  <1>2. shifts' \in Seq(ShiftRow)
    <2>1. \A i \in 1..Len(shifts) : shifts'[i] \in ShiftRow
      BY <1>1
    <2>2. shifts' = [i \in 1..Len(shifts) |-> shifts'[i]]
      BY <1>1
    <2> QED
      BY <1>1, <2>1, <2>2, IsASeq
  <1>3. shifts = <<>> => shifts' = <<>>
    BY <1>1, <1>2
  <1> QED
    BY <1>2, <1>3 DEF ShiftTyped, ShiftRows

(* One row less.                                                            *)
LEMMA ShiftDeleted ==
  ASSUME ShiftTyped, NEW id, Deleted(id)
  PROVE  /\ ShiftRows(shifts', nextShift)
         /\ AtMostOne(Defaults) => AtMostOne(Defaults')
  <1>1. shifts \in Seq(ShiftRow) /\ DOMAIN shifts = 1..Len(shifts) /\ Len(shifts) \in Nat
    BY DEF ShiftTyped, ShiftRows
  <1>2. PICK k \in 1..Len(shifts) : shifts' = RemoveAt(shifts, k)
    BY <1>1 DEF Deleted
  <1> DEFINE s1 == SubSeq(shifts, 1, k - 1)
             s2 == SubSeq(shifts, k + 1, Len(shifts))
             from(j) == IF j < k THEN j ELSE j + 1
  <1>3. /\ s1 \in Seq(ShiftRow) /\ Len(s1) = k - 1
        /\ \A i \in 1..(k - 1) : s1[i] = shifts[i]
    <2>1. \A i \in 1..(k - 1) : shifts[i] \in ShiftRow
      BY <1>1
    <2>2. /\ s1 \in Seq(ShiftRow)
          /\ Len(s1) = IF 1 <= k - 1 THEN (k - 1) - 1 + 1 ELSE 0
          /\ \A i \in 1..((k - 1) - 1 + 1) : s1[i] = shifts[1 + i - 1]
      BY <1>1, <2>1, SubSeqProperties
    <2> HIDE DEF s1
    <2> QED
      BY <1>1, <2>2
  <1>4. /\ s2 \in Seq(ShiftRow) /\ Len(s2) = Len(shifts) - k
        /\ \A i \in 1..(Len(shifts) - k) : s2[i] = shifts[k + i]
    <2>1. \A i \in (k + 1)..Len(shifts) : shifts[i] \in ShiftRow
      BY <1>1
    <2>2. /\ s2 \in Seq(ShiftRow)
          /\ Len(s2) = IF k + 1 <= Len(shifts) THEN Len(shifts) - (k + 1) + 1 ELSE 0
          /\ \A i \in 1..(Len(shifts) - (k + 1) + 1) : s2[i] = shifts[(k + 1) + i - 1]
      BY <1>1, <2>1, SubSeqProperties
    <2> HIDE DEF s2
    <2>3. Len(s2) = Len(shifts) - k
      <3>1. CASE k + 1 <= Len(shifts)
        BY <1>1, <2>2, <3>1
      <3>2. CASE k = Len(shifts)
        <4>1. ~(k + 1 <= Len(shifts)) /\ Len(shifts) - k = 0
          BY <1>1, <3>2
        <4> QED
          BY <2>2, <4>1
      <3>3. Len(shifts) \in Nat
        BY <1>1
      <3> HIDE DEF from
      <3> QED
        BY <3>1, <3>2, <3>3
    <2>4. ASSUME NEW i \in 1..(Len(shifts) - k)
          PROVE  s2[i] = shifts[k + i]
      <3>1. i \in 1..(Len(shifts) - (k + 1) + 1) /\ (k + 1) + i - 1 = k + i
        BY <1>1
      <3> QED
        BY <2>2, <3>1
    <2> QED
      BY <2>2, <2>3, <2>4
  <1>5. shifts' = s1 \o s2
    BY <1>2 DEF RemoveAt
  <1> HIDE DEF s1, s2
  <1>6. /\ shifts' \in Seq(ShiftRow)
        /\ Len(shifts') = Len(s1) + Len(s2)
        /\ \A i \in 1..(Len(s1) + Len(s2)) :
             shifts'[i] = IF i <= Len(s1) THEN s1[i] ELSE s2[i - Len(s1)]
    BY <1>3, <1>4, <1>5, ConcatProperties
  <1>7. /\ DOMAIN shifts' = 1..(Len(shifts) - 1)
        /\ \A j \in DOMAIN shifts' : from(j) \in DOMAIN shifts /\ shifts'[j] = shifts[from(j)]
    <2>1. Len(shifts') = Len(shifts) - 1
      BY <1>1, <1>3, <1>4, <1>6
    <2>2. DOMAIN shifts' = 1..(Len(shifts) - 1)
      BY <1>6, <2>1
    <2>3. ASSUME NEW j \in 1..(Len(shifts) - 1)
          PROVE  from(j) \in DOMAIN shifts /\ shifts'[j] = shifts[from(j)]
      <3>1. CASE j < k
        BY <1>1, <1>3, <1>4, <1>6, <3>1
      <3>2. CASE j >= k
        <4>1. shifts'[j] = s2[j - (k - 1)]
          BY <1>1, <1>3, <1>4, <1>6, <3>2
        <4>2. j - (k - 1) \in 1..(Len(shifts) - k)
          BY <1>1, <3>2
        <4>3. s2[j - (k - 1)] = shifts[k + (j - (k - 1))]
          BY <1>4, <4>2
        <4> QED
          BY <1>1, <3>2, <4>1, <4>3
      <3> QED
        BY <1>1, <3>1, <3>2
    <2> QED
      BY <2>2, <2>3
  <1>8. \A i, j \in DOMAIN shifts' : from(i) = from(j) => i = j
    BY <1>1, <1>7
  <1> HIDE DEF from
  <1>9. AtMostOne(Defaults) => AtMostOne(Defaults')
    BY <1>7, <1>8 DEF Defaults, AtMostOne
  <1> QED
    BY <1>6, <1>7, <1>8, <1>9 DEF ShiftTyped, ShiftRows

(* A request stands somewhere else.                                         *)
LEMMA DeskMoves ==
  ASSUME ShiftTyped, NEW d \in Clerks, NEW at, NEW id \in Nat, [at |-> at, id |-> id] \in DeskRow, Go(d, at, id)
  PROVE  /\ desks' \in [Clerks -> DeskRow]
         /\ desks'[d].at = at /\ desks'[d].id = id
         /\ \A e \in Clerks \ {d} : desks'[e] = desks[e]
  BY DEF Go, ShiftTyped, DeskRow

(* A request that arrives while nobody else is under way finds one default  *)
(* at most, and it stays so unless the request goes on to clear the marks.  *)
LEMMA ArrivalKeeps ==
  ASSUME ShiftInv, NEW d \in Clerks, NEW at, NEW id \in Nat, [at |-> at, id |-> id] \in DeskRow,
         at \in {"unset", "save", "look"},
         Arrive(d, at, id), at = "unset" \/ (AtMostOne(Defaults) => AtMostOne(Defaults'))
  PROVE  OnlyDefault'
  <1>1. /\ desks'[d].at = at /\ \A e \in Clerks \ {d} : desks'[e] = desks[e]
        /\ desks[d] = NoDesk
    BY DeskMoves DEF ShiftInv, Arrive
  <1>2. CASE \E e \in Clerks \ {d} : desks[e] # NoDesk
    BY <1>2 DEF Arrive, OnlyDefault
  <1>3. CASE "many" \in doubt
    BY <1>3 DEF Arrive, OnlyDefault
  <1>4. CASE (\A e \in Clerks : desks[e] = NoDesk) /\ "many" \notin doubt
    <2>1. AtMostOne(Defaults)
      BY <1>4 DEF ShiftInv, OnlyDefault, AboutToClear, NoDesk
    <2>2. Alone'
      BY <1>1, <1>4 DEF Alone
    <2>3. at = "unset" => AboutToClear(d)'
      BY <1>1 DEF AboutToClear
    <2>4. \A e \in Clerks : desks'[e].at # "set"
      BY <1>1, <1>4 DEF NoDesk
    <2> QED
      BY <2>1, <2>2, <2>3, <2>4 DEF OnlyDefault
  <1> QED
    BY <1>1, <1>2, <1>3, <1>4

(* A request under way that finishes or moves on.                           *)
LEMMA StepKeepsAlone ==
  ASSUME ShiftInv, NEW d \in Clerks, desks[d] # NoDesk, \A e \in Clerks \ {d} : desks'[e] = desks[e],
         Alone
  PROVE  Alone' /\ \A e \in Clerks \ {d} : desks[e] = NoDesk /\ desks'[e] = NoDesk
  BY DEF Alone

(* Every request of the company's keeps the invariant.                      *)
LEMMA ClerkKeeps ==
  ASSUME ShiftInv, NEW d \in Clerks, ShiftStep(d)
  PROVE  ShiftInv'
  <1>0. /\ ShiftTyped
        /\ nextShift \in Nat
        /\ desks[d] \in DeskRow
        /\ desks[d].id \in Nat /\ desks[d].id < nextShift
        /\ \A i \in DOMAIN shifts : shifts[i] \in ShiftRow /\ shifts[i].id \in Nat /\ shifts[i].id < nextShift
    <2>1. \A i \in DOMAIN shifts : shifts[i] \in ShiftRow
      BY DEF ShiftInv, ShiftTyped, ShiftRows
    <2>2. desks[d] \in DeskRow
      BY DEF ShiftInv, ShiftTyped
    <2> QED
      BY <2>1, <2>2 DEF ShiftInv, ShiftTyped, ShiftRows, ShiftRow, DeskRow
  <1>1. ASSUME NEW flag \in BOOLEAN
        PROVE  After(flag) \in {"unset", "look"} /\ (flag <=> After(flag) = "unset")
    BY DEF After
  <1>2. \A at \in {"idle", "save", "unset", "set", "look", "promote"}, id \in Nat : [at |-> at, id |-> id] \in DeskRow
    BY DEF DeskRow
  <1>3. ASSUME NEW next \in Nat, nextShift <= next, nextShift' = next, ShiftRows(shifts', next),
               NEW at \in {"idle", "save", "unset", "set", "look", "promote"}, NEW id \in Nat, id < next, Go(d, at, id)
        PROVE  ShiftTyped'
    BY <1>0, <1>2, <1>3, DeskMoves DEF ShiftTyped, DeskRow
  <1>4. ASSUME NEW at \in {"unset", "look", "set", "promote"}, NEW id \in Nat, Go(d, at, id)
        PROVE  SomeDefault'
    <2>1. desks'[d].at = at
      BY <1>0, <1>2, <1>4, DeskMoves
    <2> QED
      BY <2>1 DEF SomeDefault, AboutToSet
  <1>5. ASSUME NEW flag \in BOOLEAN, CreateShift(d, flag)
        PROVE  ShiftInv'
    <2> DEFINE row == [id |-> nextShift, default |-> flag]
    <2>1. Arrive(d, After(flag), nextShift) /\ Go(d, After(flag), nextShift)
      BY <1>5 DEF CreateShift, Arrive
    <2>2. /\ shifts' = Append(shifts, row) /\ nextShift' = nextShift + 1
          /\ row \in ShiftRow /\ row.id = nextShift /\ row.default = flag
      BY <1>0, <1>5 DEF CreateShift, ShiftRow
    <2>3. row.id \notin Living
      BY <1>0 DEF Living
    <2>4. nextShift + 1 \in Nat /\ nextShift <= nextShift + 1 /\ nextShift < nextShift + 1
      BY <1>0
    <2> HIDE DEF row
    <2>5. /\ ShiftRows(shifts', nextShift + 1)
          /\ ~flag => Defaults' \subseteq Defaults
      BY <1>0, <2>2, <2>3, <2>4, ShiftAppended
    <2>6. ShiftTyped'
      BY <1>0, <1>1, <1>3, <2>1, <2>2, <2>4, <2>5
    <2>7. OnlyDefault'
      <3>1. After(flag) = "unset" \/ (AtMostOne(Defaults) => AtMostOne(Defaults'))
        BY <1>1, <2>5 DEF AtMostOne
      <3> QED
        BY <1>0, <1>1, <1>2, <2>1, <3>1, ArrivalKeeps
    <2> QED
      BY <1>0, <1>1, <1>4, <2>1, <2>6, <2>7 DEF ShiftInv
  <1>6. ASSUME NEW id \in 1..(nextShift - 1), LoadShift(d, id)
        PROVE  ShiftInv'
    <2>1. Arrive(d, "save", id) /\ Go(d, "save", id) /\ UNCHANGED <<shifts, nextShift>>
      BY <1>6 DEF LoadShift, Arrive
    <2>2. id \in Nat /\ id < nextShift
      BY <1>0
    <2>3. ShiftTyped'
      BY <1>0, <1>3, <2>1, <2>2 DEF ShiftTyped
    <2>4. Defaults' = Defaults
      BY <2>1 DEF Defaults
    <2>5. OnlyDefault'
      BY <1>2, <2>1, <2>2, <2>4, ArrivalKeeps
    <2>6. SomeDefault'
      <3>1. desks[d].at = "idle"
        BY <2>1 DEF Arrive, NoDesk
      <3>3. \A e \in Clerks \ {d} : desks'[e] = desks[e]
        BY <1>0, <1>2, <2>1, <2>2, DeskMoves
      <3>2. "none" \in doubt => "none" \in doubt'
        BY <2>1 DEF Arrive
      <3> QED
        BY <2>1, <2>4, <3>1, <3>2, <3>3 DEF ShiftInv, SomeDefault, AboutToSet
    <2> QED
      BY <2>3, <2>5, <2>6 DEF ShiftInv
  <1>7. ASSUME NEW flag \in BOOLEAN, SaveShift(d, flag)
        PROVE  ShiftInv'
    <2> DEFINE id == desks[d].id
    <2>1. desks[d].at = "save" /\ Go(d, After(flag), id) /\ UNCHANGED <<nextShift, doubt>>
      BY <1>7 DEF SaveShift
    <2>2. /\ ShiftRows(shifts', nextShift)
          /\ ~flag => (AtMostOne(Defaults) => AtMostOne(Defaults'))
      <3>1. CASE id \in Living
        <4>1. shifts' = Marked(id, flag)
          BY <1>7, <3>1 DEF SaveShift
        <4>2. /\ DOMAIN shifts' = DOMAIN shifts
              /\ shifts' = [i \in DOMAIN shifts |-> shifts'[i]]
              /\ \A i \in DOMAIN shifts : shifts'[i] \in ShiftRow /\ shifts'[i].id = shifts[i].id
              /\ \A i \in DOMAIN shifts : ~flag /\ shifts'[i].default => shifts[i].default
          BY <1>0, <4>1 DEF Marked, ShiftRow
        <4>3. ~flag => Defaults' \subseteq Defaults
          BY <4>2 DEF Defaults
        <4> QED
          BY <1>0, <4>2, <4>3, ShiftsMarked DEF AtMostOne
      <3>2. CASE id \notin Living
        <4> DEFINE row == [id |-> id, default |-> flag]
        <4>1. shifts' = Append(shifts, row) /\ row \in ShiftRow /\ row.id = id /\ row.default = flag
          BY <1>0, <1>7, <3>2 DEF SaveShift, ShiftRow
        <4>2. nextShift <= nextShift
          BY <1>0
        <4> HIDE DEF row
        <4>3. ShiftRows(shifts', nextShift) /\ (~flag => Defaults' \subseteq Defaults)
          BY <1>0, <3>2, <4>1, <4>2, ShiftAppended
        <4> QED
          BY <4>3 DEF AtMostOne
      <3> QED
        BY <3>1, <3>2
    <2>3. ShiftTyped'
      BY <1>0, <1>1, <1>3, <2>1, <2>2
    <2>4. desks'[d].at = After(flag) /\ \A e \in Clerks \ {d} : desks'[e] = desks[e]
      BY <1>0, <1>1, <1>2, <2>1, DeskMoves
    <2>5. OnlyDefault'
      <3>1. CASE "many" \in doubt
        BY <2>1, <3>1 DEF OnlyDefault
      <3>2. CASE "many" \notin doubt
        <4>1. Alone /\ desks[d] # NoDesk
          BY <2>1, <3>2 DEF ShiftInv, OnlyDefault, NoDesk
        <4>2. Alone' /\ \A e \in Clerks \ {d} : desks[e] = NoDesk
          BY <2>4, <4>1, StepKeepsAlone
        <4>3. \A e \in Clerks : ~AboutToClear(e)
          BY <2>1, <4>2 DEF AboutToClear, NoDesk
        <4>4. AtMostOne(Defaults)
          BY <3>2, <4>3 DEF ShiftInv, OnlyDefault
        <4>5. flag => AboutToClear(d)'
          BY <1>1, <2>4 DEF AboutToClear
        <4>6. \A e \in Clerks : desks'[e].at # "set"
          BY <1>1, <2>4, <4>2 DEF NoDesk
        <4> QED
          BY <2>2, <4>2, <4>4, <4>5, <4>6 DEF OnlyDefault
      <3> QED
        BY <3>1, <3>2
    <2> QED
      BY <1>0, <1>1, <1>4, <2>1, <2>3, <2>5 DEF ShiftInv
  <1>8. ASSUME NEW id \in 1..(nextShift - 1), DestroyShift(d, id)
        PROVE  ShiftInv'
    <2>1. Deleted(id) /\ Arrive(d, "look", id) /\ Go(d, "look", id) /\ UNCHANGED nextShift
      BY <1>8 DEF DestroyShift, Arrive
    <2>2. id \in Nat /\ id < nextShift /\ nextShift <= nextShift
      BY <1>0
    <2>3. ShiftRows(shifts', nextShift) /\ (AtMostOne(Defaults) => AtMostOne(Defaults'))
      BY <1>0, <2>1, ShiftDeleted
    <2>4. ShiftTyped'
      BY <1>0, <1>3, <2>1, <2>2, <2>3
    <2>5. OnlyDefault'
      BY <1>2, <2>1, <2>2, <2>3, ArrivalKeeps
    <2> QED
      BY <1>4, <2>1, <2>2, <2>4, <2>5 DEF ShiftInv
  <1>9. ASSUME NEW id \in 1..(nextShift - 1), SetDefault(d, id)
        PROVE  ShiftInv'
    <2>1. Arrive(d, "unset", id) /\ Go(d, "unset", id) /\ UNCHANGED <<shifts, nextShift>>
      BY <1>9 DEF SetDefault, Arrive
    <2>2. id \in Nat /\ id < nextShift /\ nextShift <= nextShift
      BY <1>0
    <2>3. ShiftTyped'
      BY <1>0, <1>3, <2>1, <2>2 DEF ShiftTyped
    <2>4. OnlyDefault'
      BY <1>2, <2>1, <2>2, ArrivalKeeps
    <2> QED
      BY <1>4, <2>1, <2>2, <2>3, <2>4 DEF ShiftInv
  <1>10. CASE UnsetOtherShifts(d)
    <2> DEFINE id == desks[d].id
    <2>1. /\ desks[d].at = "unset" /\ Go(d, "set", id) /\ UNCHANGED nextShift
          /\ shifts' = [i \in DOMAIN shifts |->
                          IF shifts[i].id = id THEN shifts[i] ELSE [shifts[i] EXCEPT !.default = FALSE]]
      BY <1>10 DEF UnsetOtherShifts
    <2>2. /\ DOMAIN shifts' = DOMAIN shifts
          /\ shifts' = [i \in DOMAIN shifts |-> shifts'[i]]
          /\ \A i \in DOMAIN shifts : shifts'[i] \in ShiftRow /\ shifts'[i].id = shifts[i].id
          /\ \A i \in DOMAIN shifts : shifts'[i].default => shifts[i].id = id
      BY <1>0, <2>1 DEF ShiftRow
    <2>3. ShiftRows(shifts', nextShift) /\ nextShift <= nextShift
      BY <1>0, <2>2, ShiftsMarked
    <2>4. ShiftTyped'
      BY <1>0, <1>3, <2>1, <2>3
    <2>5. /\ desks'[d].at = "set" /\ desks'[d].id = id
          /\ \A e \in Clerks \ {d} : desks'[e] = desks[e]
      BY <1>0, <1>2, <2>1, DeskMoves
    <2>6. AboutToClear(d)'
      BY <2>2, <2>5 DEF AboutToClear, Defaults
    <2>7. OnlyDefault'
      <3>1. CASE \A e \in Clerks \ {d} : desks[e] = NoDesk
        <4>1. Alone'
          BY <2>5, <3>1 DEF Alone
        <4>2. \A e \in Clerks : desks'[e].at = "set" => e = d
          BY <2>5, <3>1 DEF NoDesk
        <4> QED
          BY <2>6, <4>1, <4>2 DEF OnlyDefault
      <3>2. CASE ~ \A e \in Clerks \ {d} : desks[e] = NoDesk
        <4>1. doubt' = doubt
          BY <1>10, <3>2 DEF UnsetOtherShifts
        <4>2. ~Alone
          BY <2>1, <3>2 DEF Alone, NoDesk
        <4> QED
          BY <4>1, <4>2 DEF ShiftInv, OnlyDefault
      <3> QED
        BY <3>1, <3>2
    <2> QED
      BY <1>0, <1>4, <2>1, <2>4, <2>7 DEF ShiftInv
  <1>11. CASE SetThis(d)
    <2> DEFINE id == desks[d].id
    <2>1. desks[d].at = "set" /\ Go(d, "idle", 0) /\ UNCHANGED nextShift /\ shifts' = Marked(id, TRUE)
      BY <1>11 DEF SetThis
    <2>2. /\ DOMAIN shifts' = DOMAIN shifts
          /\ shifts' = [i \in DOMAIN shifts |-> shifts'[i]]
          /\ \A i \in DOMAIN shifts : shifts'[i] \in ShiftRow /\ shifts'[i].id = shifts[i].id
          /\ \A i \in DOMAIN shifts : shifts'[i].default <=> shifts[i].id = id \/ shifts[i].default
      BY <1>0, <2>1 DEF Marked, ShiftRow
    <2>3. ShiftRows(shifts', nextShift) /\ nextShift <= nextShift
      BY <1>0, <2>2, ShiftsMarked
    <2>4. ShiftTyped'
      <3>1. 0 \in Nat /\ 0 < nextShift
        BY <1>0
      <3> QED
        BY <1>0, <1>3, <2>1, <2>3, <3>1
    <2>5. \A e \in Clerks \ {d} : desks'[e] = desks[e]
      BY <1>0, <1>2, <2>1, DeskMoves
    <2>6. SomeDefault'
      <3>1. CASE id \in Living
        <4>1. PICK i \in DOMAIN shifts : shifts[i].id = id
          BY <3>1 DEF Living
        <4>2. i \in Defaults'
          BY <2>2, <4>1 DEF Defaults
        <4> QED
          BY <4>2 DEF SomeDefault
      <3>2. CASE id \notin Living
        BY <1>11, <3>2 DEF SetThis, SomeDefault
      <3> QED
        BY <3>1, <3>2
    <2>7. OnlyDefault'
      <3>1. CASE "many" \in doubt
        BY <1>11, <3>1 DEF SetThis, OnlyDefault
      <3>2. CASE "many" \notin doubt
        <4>1. Alone /\ desks[d] # NoDesk
          BY <2>1, <3>2 DEF ShiftInv, OnlyDefault, NoDesk
        <4>2. Alone' /\ \A e \in Clerks \ {d} : desks[e] = NoDesk
          BY <2>5, <4>1, StepKeepsAlone
        <4>3. AboutToClear(d)
          BY <2>1, <3>2 DEF ShiftInv, OnlyDefault
        <4>4. AtMostOne(Defaults')
          <5>1. \A i \in Defaults : shifts[i].id = id
            BY <2>1, <4>3 DEF AboutToClear
          <5>2. \A i \in Defaults' : i \in DOMAIN shifts /\ shifts[i].id = id
            BY <2>2, <5>1 DEF Defaults
          <5>3. \A i, j \in DOMAIN shifts : shifts[i].id = shifts[j].id => i = j
            BY <1>0 DEF ShiftTyped, ShiftRows
          <5> QED
            BY <5>2, <5>3 DEF AtMostOne
        <4>5. \A e \in Clerks : desks'[e].at # "set"
          <5>1. desks'[d].at = "idle"
            BY <1>0, <1>2, <2>1, DeskMoves
          <5> QED
            BY <2>5, <4>2, <5>1 DEF NoDesk
        <4> QED
          BY <4>2, <4>4, <4>5 DEF OnlyDefault
      <3> QED
        BY <3>1, <3>2
    <2> QED
      BY <2>4, <2>6, <2>7 DEF ShiftInv
  <1>12. ASSUME UNCHANGED <<shifts, nextShift, doubt>>, desks[d].at \in {"look", "promote"},
                NEW at \in {"idle", "promote", "unset"}, NEW id \in Nat, id < nextShift, Go(d, at, id),
                at = "idle" => shifts = <<>> \/ Defaults # {}
         PROVE  ShiftInv'
    <2>1. Defaults' = Defaults
      BY <1>12 DEF Defaults
    <2>2. ShiftTyped'
      BY <1>0, <1>3, <1>12 DEF ShiftTyped
    <2>3. desks'[d].at = at /\ \A e \in Clerks \ {d} : desks'[e] = desks[e]
      BY <1>0, <1>2, <1>12, DeskMoves
    <2>4. SomeDefault'
      BY <1>12, <2>1, <2>3 DEF SomeDefault, AboutToSet
    <2>5. OnlyDefault'
      <3>1. CASE "many" \in doubt
        BY <1>12, <3>1 DEF OnlyDefault
      <3>2. CASE "many" \notin doubt
        <4>1. Alone /\ desks[d] # NoDesk
          BY <1>12, <3>2 DEF ShiftInv, OnlyDefault, NoDesk
        <4>2. Alone' /\ \A e \in Clerks \ {d} : desks[e] = NoDesk
          BY <2>3, <4>1, StepKeepsAlone
        <4>3. \A e \in Clerks : ~AboutToClear(e)
          BY <1>12, <4>2 DEF AboutToClear, NoDesk
        <4>4. \A e \in Clerks : desks'[e].at # "set"
          BY <1>12, <2>3, <4>2 DEF NoDesk
        <4> QED
          BY <2>1, <3>2, <4>2, <4>3, <4>4 DEF ShiftInv, OnlyDefault
      <3> QED
        BY <3>1, <3>2
    <2> QED
      BY <2>2, <2>4, <2>5 DEF ShiftInv
  <1>13. CASE Look(d)
    <2>1. CASE Defaults # {}
      BY <1>0, <1>12, <1>13, <2>1 DEF Look
    <2>2. CASE Defaults = {}
      BY <1>0, <1>12, <1>13, <2>2 DEF Look
    <2> QED
      BY <2>1, <2>2
  <1>14. CASE Promote(d)
    <2>1. CASE shifts = <<>>
      BY <1>0, <1>12, <1>14, <2>1 DEF Promote
    <2>2. CASE shifts # <<>>
      <3>1. Len(shifts) \in DOMAIN shifts
        BY <1>0, <2>2 DEF ShiftTyped, ShiftRows
      <3>2. Last(shifts).id \in Nat /\ Last(shifts).id < nextShift
        BY <1>0, <3>1 DEF Last
      <3> QED
        BY <1>12, <1>14, <2>2, <3>2 DEF Promote
    <2> QED
      BY <2>1, <2>2
  <1> QED
    BY <1>5, <1>6, <1>7, <1>8, <1>9, <1>10, <1>11, <1>13, <1>14 DEF ShiftStep

(* The company has no schedule.                                             *)
LEMMA ShiftsInitially == ScheduleInit => ShiftInv
  <1> SUFFICES ASSUME ScheduleInit PROVE ShiftInv
    OBVIOUS
  <1>1. shifts = <<>> /\ DOMAIN shifts = {} /\ nextShift = 1
    BY DEF ScheduleInit
  <1>2. \A d \in Clerks : desks[d] = NoDesk
    BY DEF ScheduleInit
  <1>3. ShiftTyped
    BY <1>1, EmptySeq DEF ScheduleInit, ShiftTyped, ShiftRows, NoDesk, DeskRow
  <1>4. Defaults = {}
    BY <1>1 DEF Defaults
  <1> QED
    BY <1>1, <1>2, <1>3, <1>4 DEF ShiftInv, SomeDefault, OnlyDefault, Alone, AtMostOne, NoDesk

(* Who leaves the company with two defaults, or none, is about to mend it,  *)
(* whatever requests overlapped (WorkSchedule.save, set_default,            *)
(* ensure_some_default).                                                    *)
THEOREM ShiftInvariant == ScheduleSpec => []ShiftInv
  <1>1. ASSUME ShiftInv, [ScheduleNext]_scheduleVars
        PROVE  ShiftInv'
    <2>1. CASE UNCHANGED shiftVars
      BY <1>1, <2>1 DEF shiftVars, ShiftInv, ShiftTyped, SomeDefault, AboutToSet, OnlyDefault, Alone,
                        AboutToClear, Defaults
    <2>2. CASE PlanNext
      BY <2>1, <2>2 DEF PlanNext, PlanStep, LoadPlan, RemovePlan, AskRows, Assign, SavePlan, Saved, LockUser,
                        AskDefaults, ClearDefaults, MakeDefault, LockRows, WriteRows, GiveUpDefault, GiveUpBulk
    <2>3. CASE ShiftNext
      BY <1>1, <2>3, ClerkKeeps DEF ShiftNext
    <2> QED
      BY <1>1, <2>1, <2>2, <2>3 DEF ScheduleNext, scheduleVars
  <1> QED
    BY <1>1, ShiftsInitially, PTL DEF ScheduleSpec

(* When no request is under way, the company has exactly one default: two   *)
(* only where requests overlapped since, none only where one set a schedule *)
(* that did not exist.                                                      *)
THEOREM CompanyHasOneDefault == ScheduleSpec => []OneDefaultShift
  <1>1. ASSUME ShiftInv, \A d \in Clerks : desks[d] = NoDesk
        PROVE  /\ "many" \in doubt \/ Cardinality(Defaults) <= 1
               /\ "none" \in doubt \/ shifts = <<>> \/ Defaults # {}
    <2>1. \A d \in Clerks : ~AboutToSet(d) /\ ~AboutToClear(d)
      BY <1>1 DEF AboutToSet, AboutToClear, NoDesk
    <2>2. "many" \in doubt \/ AtMostOne(Defaults)
      BY <1>1, <2>1 DEF ShiftInv, OnlyDefault
    <2> QED
      BY <1>1, <2>1, <2>2, AtMostOneCardinality DEF ShiftInv, SomeDefault
  <1>2. ShiftInv => OneDefaultShift
    BY <1>1 DEF OneDefaultShift
  <1> QED
    BY <1>2, ShiftInvariant, PTL

-----------------------------------------------------------------------------
(****************************************************************************)
(* FanOut.                                                                  *)
(****************************************************************************)

Steps == {"idle", "target", "existing", "add", "delete", "commit"}
HaveRead == {"existing", "add", "delete", "commit"}

FanRow == [at : Steps, row : SUBSET ReviewRows, gone : SUBSET ReviewRows, target : SUBSET Readers, existing : SUBSET Readers,
           late : SUBSET Readers, alone : BOOLEAN]

FanTyped ==
    /\ DOMAIN reviews \subseteq ReviewRows
    /\ reviews \in [DOMAIN reviews -> Readers]
    /\ inbox \subseteq Readers
    /\ fans \in [FanRequests -> FanRow]

(* Only a deletion goes to commit, and only a saved row to add and delete.  *)
Paths ==
    \A r \in FanRequests :
       /\ At(r, "add") \/ At(r, "delete") => fans[r].gone = {}
       /\ ~At(r, "idle") => fans[r].gone # {} \/ fans[r].row # {}

(* A row being deleted stays until its transaction ends, which is one.      *)
GoneStand ==
    \A r \in FanRequests :
       /\ fans[r].gone \subseteq DOMAIN reviews
       /\ \A q \in FanRequests \ {r} : fans[q].gone \cap fans[r].gone = {}

(* What a handler has read of a row stands, or it is late about it.         *)
ReadsStand ==
    \A r \in FanRequests : fans[r].at \in HaveRead =>
       \A u \in Readers \ fans[r].late : u \in fans[r].target <=> u \in PeopleBut(fans[r].gone)

(* Nobody moves the inbox under a handler that runs alone.                  *)
AloneSees ==
    \A r \in FanRequests : fans[r].alone =>
       /\ AloneNow(r)
       /\ fans[r].late = {}
       /\ At(r, "add") \/ At(r, "commit") => fans[r].existing = inbox
       /\ At(r, "delete") => inbox = fans[r].existing \cup fans[r].target

Wrong(u) == ~(u \in inbox <=> u \in Reviewing)

(* The handler of a saved row will look at the rows, or put u right.        *)
Fixes(r, u) ==
    /\ fans[r].gone = {}
    /\ \/ At(r, "target") \/ At(r, "existing")
       \/ At(r, "add") /\ u \in Missing(r) \cup TooMany(r)
       \/ At(r, "delete") /\ u \in TooMany(r)

Deleting == {q \in FanRequests : At(q, "commit")}
GoneTo(Q) == UNION {fans[q].gone : q \in Q}

(* It will do so even if the deletions of Q come first, or leave u in doubt. *)
Concerned(r, u, Q) ==
    \/ u \in fans[r].late \cup Leaving(r)
    \/ fans[r].row \subseteq DOMAIN reviews \ GoneTo(Q) /\ Fixes(r, u)

(* Whichever deletions are committed, with the handlers they make fail: one *)
(* of them has seen that u is wrong, or somebody else will.                 *)
SomeoneIsConcerned ==
    \A u \in Readers \ overtaken, Q \in SUBSET Deleting :
       Wrong(u) => \/ \E q \in Q : u \in fans[q].late \cup Missing(q) \cup TooMany(q)
                   \/ \E r \in FanRequests : Concerned(r, u, Q)

FanInv == FanTyped /\ Paths /\ GoneStand /\ ReadsStand /\ AloneSees /\ SomeoneIsConcerned

-----------------------------------------------------------------------------

(* Who leaves aside, deleting a row or not makes no difference.             *)
LEMMA NotLeaving ==
  ASSUME NEW r \in FanRequests, NEW u, u \notin Leaving(r)
  PROVE  u \in PeopleBut(fans[r].gone) <=> u \in Reviewing
  BY DEF Leaving, PeopleBut, Reviewing

(* The inbox is right and nobody is at work.                                *)
LEMMA FanInitially == FanInit => FanInv
  <1> SUFFICES ASSUME FanInit PROVE FanInv
    OBVIOUS
  <1>1. /\ DOMAIN reviews \subseteq ReviewRows
        /\ reviews \in [DOMAIN reviews -> Readers]
        /\ fans = [r \in FanRequests |-> NoFan]
        /\ inbox = Reviewing
    BY DEF FanInit
  <1>2. FanTyped
    BY <1>1 DEF FanTyped, FanRow, Steps, NoFan, Reviewing, PeopleBut
  <1>3. Paths /\ GoneStand /\ ReadsStand /\ AloneSees
    BY <1>1 DEF Paths, GoneStand, ReadsStand, HaveRead, AloneSees, NoFan, At
  <1>4. SomeoneIsConcerned
    BY <1>1 DEF SomeoneIsConcerned, Wrong
  <1> QED
    BY <1>2, <1>3, <1>4 DEF FanInv

(* What a change of rows does to another handler.                           *)
LEMMA Overtakes ==
  ASSUME FanTyped, NEW r \in FanRequests, NEW S \in SUBSET Readers, NEW mine \in FanRow,
         Overtaking(r, S, mine)
  PROVE  /\ fans' \in [FanRequests -> FanRow]
         /\ fans'[r] = mine
         /\ \A q \in FanRequests \ {r} :
               /\ fans[q] = NoFan => fans'[q] = NoFan
               /\ fans'[q].at = fans[q].at /\ fans'[q].gone = fans[q].gone /\ fans'[q].row = fans[q].row
               /\ fans'[q].target = fans[q].target /\ fans'[q].existing = fans[q].existing
               /\ ~fans'[q].alone
               /\ fans[q].late \subseteq fans'[q].late
               /\ fans[q].at \in HaveRead => fans'[q].late = fans[q].late \cup S
  <1>1. /\ NoFan \in FanRow
        /\ NoFan.at = "idle" /\ NoFan.gone = {} /\ NoFan.row = {} /\ NoFan.target = {} /\ NoFan.existing = {}
        /\ NoFan.late = {} /\ ~NoFan.alone
    BY DEF NoFan, FanRow, Steps
  <1>2. fans \in [FanRequests -> FanRow] /\ DOMAIN fans' = FanRequests /\ fans'[r] = mine
    BY DEF FanTyped, Overtaking
  <1>3. ASSUME NEW q \in FanRequests \ {r}
        PROVE  /\ fans'[q] \in FanRow
               /\ fans[q] = NoFan => fans'[q] = NoFan
               /\ fans'[q].at = fans[q].at /\ fans'[q].gone = fans[q].gone /\ fans'[q].row = fans[q].row
               /\ fans'[q].target = fans[q].target /\ fans'[q].existing = fans[q].existing
               /\ ~fans'[q].alone
               /\ fans[q].late \subseteq fans'[q].late
               /\ fans[q].at \in HaveRead => fans'[q].late = fans[q].late \cup S
    <2>1. CASE fans[q] = NoFan
      <3>1. fans'[q] = NoFan
        BY <1>3, <2>1 DEF Overtaking
      <3> QED
        BY <1>1, <2>1, <3>1 DEF HaveRead
    <2>2. CASE fans[q] # NoFan
      <3>1. fans'[q] = [fans[q] EXCEPT !.late = @ \cup (IF fans[q].at = "target" THEN {} ELSE S), !.alone = FALSE]
        BY <1>3, <2>2 DEF Overtaking
      <3>2. fans[q] \in FanRow
        BY <1>2
      <3> QED
        BY <2>2, <3>1, <3>2 DEF FanRow, HaveRead
    <2> QED
      BY <2>1, <2>2
  <1>4. fans' = [q \in FanRequests |-> fans'[q]]
    BY DEF Overtaking
  <1> QED
    BY <1>2, <1>3, <1>4

(* A request changes rows of S and its handler is about to read.            *)
LEMMA StartsKeep ==
  ASSUME FanInv, NEW r \in FanRequests, NEW row \in SUBSET ReviewRows, NEW gone \in SUBSET Unlocked,
         NEW S \in SUBSET Readers,
         Starts(r, row, gone, S),
         (gone # {} /\ S = {}) \/ (gone = {} /\ row # {}),
         row \subseteq DOMAIN reviews' \ GoneTo(FanRequests),
         DOMAIN reviews \subseteq DOMAIN reviews', DOMAIN reviews' \subseteq ReviewRows,
         reviews' \in [DOMAIN reviews' -> Readers],
         \A u \in Readers \ S, i \in ReviewRows :
            i \in DOMAIN reviews' /\ reviews'[i] = u <=> i \in DOMAIN reviews /\ reviews[i] = u
  PROVE  FanInv'
  <1> DEFINE mine == [NoFan EXCEPT !.at = "target", !.row = row, !.gone = gone, !.alone = AloneNow(r)]
  <1>0. /\ mine \in FanRow
        /\ mine.at = "target" /\ mine.late = {} /\ mine.alone = AloneNow(r) /\ mine.gone = gone /\ mine.row = row
    BY DEF FanRow, Steps, NoFan, AloneNow, FanInv, FanTyped, Unlocked
  <1>a. /\ Overtaking(r, S, mine)
        /\ fans[r] = NoFan
        /\ UNCHANGED <<inbox, overtaken>>
    BY DEF Starts
  <1>b. FanTyped
    BY DEF FanInv
  <1>m. mine \in FanRow /\ Overtaking(r, S, mine)
    BY <1>0, <1>a
  <1> HIDE DEF mine
  <1>c. /\ fans' \in [FanRequests -> FanRow]
        /\ fans'[r] = mine
        /\ \A q \in FanRequests \ {r} :
              /\ fans[q] = NoFan => fans'[q] = NoFan
              /\ fans'[q].at = fans[q].at /\ fans'[q].gone = fans[q].gone /\ fans'[q].row = fans[q].row
              /\ fans'[q].target = fans[q].target /\ fans'[q].existing = fans[q].existing
              /\ ~fans'[q].alone
              /\ fans[q].late \subseteq fans'[q].late
              /\ fans[q].at \in HaveRead => fans'[q].late = fans[q].late \cup S
    BY <1>b, <1>m, Overtakes
  <1>1. FanTyped'
    BY <1>a, <1>b, <1>c DEF FanTyped
  <1>2. Paths'
    BY <1>0, <1>c DEF FanInv, Paths, At
  <1>g. GoneStand'
    BY <1>0, <1>c DEF FanInv, GoneStand, Unlocked
  <1>3. ReadsStand'
    <2> SUFFICES ASSUME NEW q \in FanRequests, fans'[q].at \in HaveRead,
                        NEW u \in Readers \ fans'[q].late
                 PROVE  u \in fans'[q].target <=> u \in PeopleBut(fans[q].gone)'
      BY DEF ReadsStand
    <2>1. q # r
      BY <1>0, <1>c DEF HaveRead
    <2>2. /\ fans[q].at \in HaveRead
          /\ u \notin fans[q].late
          /\ u \notin S
          /\ fans'[q].target = fans[q].target /\ fans'[q].gone = fans[q].gone
      BY <1>c, <2>1
    <2>3. \A i : i \in DOMAIN reviews' /\ reviews'[i] = u <=> i \in DOMAIN reviews /\ reviews[i] = u
      BY <1>b, <2>2 DEF FanTyped
    <2>4. u \in PeopleBut(fans[q].gone)' <=> u \in PeopleBut(fans[q].gone)
      BY <2>2, <2>3 DEF PeopleBut
    <2> QED
      BY <2>2, <2>4 DEF FanInv, ReadsStand
  <1>4. AloneSees'
    <2> SUFFICES ASSUME fans'[r].alone
                 PROVE  AloneNow(r)' /\ fans'[r].late = {} /\ fans'[r].at = "target"
      BY <1>c DEF AloneSees, At
    <2> QED
      BY <1>0, <1>c DEF AloneNow
  <1>5. SomeoneIsConcerned'
    <2> SUFFICES ASSUME NEW u \in Readers \ overtaken, NEW Q \in SUBSET Deleting', Wrong(u)'
                 PROVE  \/ \E q \in Q : u \in (fans[q].late \cup Missing(q) \cup TooMany(q))'
                        \/ \E q \in FanRequests : Concerned(q, u, Q)'
      BY <1>a DEF SomeoneIsConcerned
    <2>1. /\ Q \in SUBSET Deleting
          /\ r \notin Q
          /\ GoneTo(Q)' = GoneTo(Q) /\ GoneTo(Q) \subseteq GoneTo(FanRequests)
      BY <1>0, <1>c DEF Deleting, At, GoneTo
    <2>2. CASE u \in S
      <3>1. Concerned(r, u, Q)'
        BY <1>0, <1>c, <2>1, <2>2 DEF Concerned, Fixes, At
      <3> QED
        BY <3>1
    <2>3. CASE u \notin S
      <3>1. \A i : i \in DOMAIN reviews' /\ reviews'[i] = u <=> i \in DOMAIN reviews /\ reviews[i] = u
        BY <1>b, <2>3 DEF FanTyped
      <3>2. Wrong(u)
        BY <1>a, <3>1 DEF Wrong, Reviewing, PeopleBut
      <3>3. CASE \E q \in Q : u \in fans[q].late \cup Missing(q) \cup TooMany(q)
        BY <1>c, <2>1, <3>3 DEF Missing, TooMany, Deleting
      <3>4. CASE \E q \in FanRequests : Concerned(q, u, Q)
        <4>1. PICK q \in FanRequests : Concerned(q, u, Q)
          BY <3>4
        <4>2. q # r
          BY <1>a, <4>1 DEF Concerned, Fixes, Leaving, NoFan, At
        <4>3. u \in Leaving(q) => u \in Leaving(q)'
          BY <1>c, <3>1, <4>2 DEF FanInv, GoneStand, Leaving
        <4>4. Concerned(q, u, Q)'
          BY <1>c, <2>1, <4>1, <4>2, <4>3 DEF Concerned, Fixes, At, Missing, TooMany
        <4> QED
          BY <4>4
      <3> QED
        BY <2>1, <3>2, <3>3, <3>4 DEF FanInv, SomeoneIsConcerned
    <2> QED
      BY <2>2, <2>3
  <1> QED
    BY <1>1, <1>2, <1>g, <1>3, <1>4, <1>5 DEF FanInv

(* Every request starts a handler that will look at the rows it changed.    *)
LEMMA RequestsKeep ==
  ASSUME FanInv, NEW r \in FanRequests, NEW i \in ReviewRows, NEW u \in Readers,
         \/ CreateReviewer(r, i, u)
         \/ i \in DOMAIN reviews /\ (SaveReviewer(r, i) \/ DeleteReviewer(r, i) \/ ChangeReviewer(r, i, u))
  PROVE  FanInv'
  <1>0. DOMAIN reviews \subseteq ReviewRows /\ reviews \in [DOMAIN reviews -> Readers]
    BY DEF FanInv, FanTyped
  <1>g. /\ GoneTo(FanRequests) \subseteq DOMAIN reviews
        /\ Unlocked = DOMAIN reviews \ GoneTo(FanRequests)
    BY DEF FanInv, GoneStand, GoneTo, Unlocked
  <1>1. CASE CreateReviewer(r, i, u)
    BY <1>0, <1>g, <1>1, StartsKeep DEF CreateReviewer
  <1>2. CASE SaveReviewer(r, i)
    BY <1>0, <1>g, <1>2, StartsKeep DEF SaveReviewer
  <1>3. CASE DeleteReviewer(r, i)
    BY <1>0, <1>g, <1>3, StartsKeep DEF DeleteReviewer
  <1>4. CASE i \in DOMAIN reviews /\ ChangeReviewer(r, i, u)
    BY <1>0, <1>g, <1>4, StartsKeep DEF ChangeReviewer
  <1> QED
    BY <1>1, <1>2, <1>3, <1>4

(* The steps of a handler change nothing of the others.                     *)
LEMMA ReadTargetKeeps ==
  ASSUME FanInv, NEW r \in FanRequests, ReadTarget(r)
  PROVE  FanInv'
  <1>0. FanTyped /\ Paths /\ GoneStand /\ ReadsStand /\ AloneSees /\ SomeoneIsConcerned
    BY DEF FanInv
  <1> DEFINE target == PeopleBut(fans[r].gone)
  <1>p. target \in SUBSET Readers
    BY <1>0 DEF FanTyped, PeopleBut
  <1>q. fans[r].at = "target" /\ UNCHANGED <<reviews, inbox, overtaken>>
        /\ fans' = [fans EXCEPT ![r].at = "existing", ![r].target = target]
    BY DEF ReadTarget, At
  <1> HIDE DEF target
  <1>a. /\ fans' \in [FanRequests -> FanRow]
        /\ \A q \in FanRequests \ {r} : fans'[q] = fans[q]
        /\ fans[r].at = "target" /\ fans'[r].at = "existing"
        /\ fans'[r].gone = fans[r].gone /\ fans'[r].late = fans[r].late /\ fans'[r].row = fans[r].row
        /\ fans'[r].alone = fans[r].alone
        /\ fans'[r].target = target
        /\ UNCHANGED <<reviews, inbox, overtaken>>
    BY <1>0, <1>p, <1>q DEF FanTyped, FanRow, Steps
  <1> USE DEF target
  <1>h. /\ Reviewing' = Reviewing
        /\ \A q \in FanRequests : /\ PeopleBut(fans[q].gone)' = PeopleBut(fans[q].gone)
                                  /\ Leaving(q)' = Leaving(q)
    BY <1>0, <1>a DEF Reviewing, PeopleBut, Leaving
  <1>1. FanTyped'
    BY <1>0, <1>a DEF FanTyped
  <1>2. Paths'
    BY <1>0, <1>a DEF Paths, At
  <1>g. GoneStand'
    BY <1>0, <1>a DEF GoneStand
  <1>3. ReadsStand'
    BY <1>0, <1>a, <1>h DEF ReadsStand, HaveRead
  <1>4. AloneSees'
    BY <1>0, <1>a, <1>h DEF AloneSees, AloneNow, NoFan, At
  <1>5. SomeoneIsConcerned'
    <2> SUFFICES ASSUME NEW u \in Readers \ overtaken, NEW Q \in SUBSET Deleting', Wrong(u)'
                 PROVE  \/ \E q \in Q : u \in (fans[q].late \cup Missing(q) \cup TooMany(q))'
                        \/ \E q \in FanRequests : Concerned(q, u, Q)'
      BY <1>a DEF SomeoneIsConcerned
    <2>1. Q \in SUBSET Deleting /\ r \notin Q /\ Wrong(u) /\ GoneTo(Q)' = GoneTo(Q)
      BY <1>a, <1>h DEF Deleting, At, GoneTo, Wrong
    <2>2. \A q \in FanRequests : Concerned(q, u, Q) => Concerned(q, u, Q)'
      BY <1>a, <1>h, <2>1 DEF Concerned, Fixes, At, Missing, TooMany
    <2>3. \A q \in Q : Missing(q)' = Missing(q) /\ TooMany(q)' = TooMany(q) /\ fans'[q].late = fans[q].late
      BY <1>a, <2>1 DEF Missing, TooMany, Deleting
    <2> QED
      BY <1>0, <2>1, <2>2, <2>3 DEF SomeoneIsConcerned
  <1> QED
    BY <1>1, <1>2, <1>g, <1>3, <1>4, <1>5 DEF FanInv

(* Who is wrong now is missing or too many in what the handler has read.    *)
LEMMA ReadExistingKeeps ==
  ASSUME FanInv, NEW r \in FanRequests, ReadExisting(r)
  PROVE  FanInv'
  <1>0. FanTyped /\ Paths /\ GoneStand /\ ReadsStand /\ AloneSees /\ SomeoneIsConcerned
    BY DEF FanInv
  <1>a. /\ fans' \in [FanRequests -> FanRow]
        /\ \A q \in FanRequests \ {r} : fans'[q] = fans[q]
        /\ fans[r].at = "existing"
        /\ fans'[r].at = IF fans[r].gone = {} THEN "add" ELSE "commit"
        /\ fans'[r].gone = fans[r].gone /\ fans'[r].late = fans[r].late /\ fans'[r].row = fans[r].row
        /\ fans'[r].alone = fans[r].alone /\ fans'[r].target = fans[r].target
        /\ fans'[r].existing = inbox
        /\ UNCHANGED <<reviews, inbox, overtaken>>
    BY <1>0 DEF FanTyped, FanRow, Steps, ReadExisting, At
  <1>h. /\ Reviewing' = Reviewing
        /\ \A q \in FanRequests : /\ PeopleBut(fans[q].gone)' = PeopleBut(fans[q].gone)
                                  /\ Leaving(q)' = Leaving(q)
    BY <1>0, <1>a DEF Reviewing, PeopleBut, Leaving
  <1>1. FanTyped'
    BY <1>0, <1>a DEF FanTyped
  <1>2. Paths'
    BY <1>0, <1>a DEF Paths, At
  <1>g. GoneStand'
    BY <1>0, <1>a DEF GoneStand
  <1>3. ReadsStand'
    BY <1>0, <1>a, <1>h DEF ReadsStand, HaveRead
  <1>4. AloneSees'
    BY <1>0, <1>a, <1>h DEF AloneSees, AloneNow, NoFan, At
  <1>5. SomeoneIsConcerned'
    <2> SUFFICES ASSUME NEW u \in Readers \ overtaken, NEW Q \in SUBSET Deleting', Wrong(u)'
                 PROVE  \/ \E q \in Q : u \in (fans[q].late \cup Missing(q) \cup TooMany(q))'
                        \/ \E q \in FanRequests : Concerned(q, u, Q)'
      BY <1>a DEF SomeoneIsConcerned
    <2>1. /\ Q \ {r} \in SUBSET Deleting /\ Wrong(u) /\ GoneTo(Q)' = GoneTo(Q)
          /\ GoneTo(Q \ {r}) \subseteq GoneTo(Q)
      BY <1>a, <1>h DEF Deleting, At, GoneTo, Wrong
    <2>2. CASE u \in fans[r].late \cup Leaving(r)
      BY <1>a, <1>h, <2>2 DEF Concerned
    <2>3. CASE u \notin fans[r].late \cup Leaving(r)
      <3>1. u \in fans[r].target <=> u \in Reviewing
        BY <1>0, <1>a, <1>h, <2>3, NotLeaving DEF ReadsStand, HaveRead
      <3>2. u \in Missing(r)' \cup TooMany(r)'
        BY <1>a, <1>h, <2>1, <3>1 DEF Missing, TooMany, Wrong
      <3>3. CASE r \in Q
        BY <3>2, <3>3
      <3>4. CASE r \notin Q
        <4>1. Q \in SUBSET Deleting
          BY <2>1, <3>4
        <4>2. \A q \in FanRequests : Concerned(q, u, Q) => Concerned(q, u, Q)'
          BY <1>a, <1>h, <2>1, <3>2 DEF Concerned, Fixes, At, Missing, TooMany
        <4>3. \A q \in Q : Missing(q)' = Missing(q) /\ TooMany(q)' = TooMany(q) /\ fans'[q].late = fans[q].late
          BY <1>a, <3>4, <4>1 DEF Missing, TooMany, Deleting
        <4> QED
          BY <1>0, <2>1, <4>1, <4>2, <4>3 DEF SomeoneIsConcerned
      <3> QED
        BY <3>3, <3>4
    <2> QED
      BY <2>2, <2>3
  <1> QED
    BY <1>1, <1>2, <1>g, <1>3, <1>4, <1>5 DEF FanInv

(* Who is wrong after an item was added changed meanwhile, and the handler  *)
(* is late about him.                                                       *)
LEMMA AddItemsKeeps ==
  ASSUME FanInv, NEW r \in FanRequests, AddItems(r)
  PROVE  FanInv'
  <1>0. FanTyped /\ Paths /\ GoneStand /\ ReadsStand /\ AloneSees /\ SomeoneIsConcerned
    BY DEF FanInv
  <1>a. /\ fans' \in [FanRequests -> FanRow]
        /\ \A q \in FanRequests \ {r} : fans'[q] = fans[q]
        /\ fans[r].at = "add" /\ fans'[r].at = "delete"
        /\ fans'[r].gone = fans[r].gone /\ fans'[r].late = fans[r].late /\ fans'[r].row = fans[r].row
        /\ fans'[r].alone = fans[r].alone /\ fans'[r].target = fans[r].target
        /\ fans'[r].existing = fans[r].existing
        /\ inbox' = inbox \cup Missing(r)
        /\ UNCHANGED <<reviews, overtaken>>
    BY <1>0 DEF FanTyped, FanRow, Steps, AddItems, At
  <1>h. /\ Reviewing' = Reviewing
        /\ \A q \in FanRequests : /\ PeopleBut(fans[q].gone)' = PeopleBut(fans[q].gone)
                                  /\ Leaving(q)' = Leaving(q)
    BY <1>0, <1>a DEF Reviewing, PeopleBut, Leaving
  <1>1. FanTyped'
    BY <1>0, <1>a DEF FanTyped, FanRow, Missing
  <1>2. Paths'
    BY <1>0, <1>a DEF Paths, At
  <1>g. GoneStand'
    BY <1>0, <1>a DEF GoneStand
  <1>3. ReadsStand'
    BY <1>0, <1>a, <1>h DEF ReadsStand, HaveRead
  <1>4. AloneSees'
    <2>1. \A q \in FanRequests \ {r} : ~fans[q].alone
      BY <1>0, <1>a, <1>h DEF AloneSees, AloneNow, NoFan
    <2> QED
      BY <1>0, <1>a, <1>h, <2>1 DEF AloneSees, AloneNow, At, Missing
  <1>5. SomeoneIsConcerned'
    <2> SUFFICES ASSUME NEW u \in Readers \ overtaken, NEW Q \in SUBSET Deleting', Wrong(u)'
                 PROVE  \/ \E q \in Q : u \in (fans[q].late \cup Missing(q) \cup TooMany(q))'
                        \/ \E q \in FanRequests : Concerned(q, u, Q)'
      BY <1>a DEF SomeoneIsConcerned
    <2>1. CASE u \in Missing(r)
      <3>1. u \notin Reviewing
        BY <1>a, <1>h, <2>1 DEF Wrong
      <3>2. u \in fans[r].late
        BY <1>0, <1>a, <1>h, <2>1, <3>1 DEF ReadsStand, HaveRead, Missing, PeopleBut, Reviewing
      <3> QED
        BY <1>a, <1>h, <3>2 DEF Concerned, NoFan
    <2>2. CASE u \notin Missing(r)
      <3>1. Q \in SUBSET Deleting /\ r \notin Q /\ Wrong(u) /\ GoneTo(Q)' = GoneTo(Q)
        BY <1>a, <1>h, <2>2 DEF Deleting, At, GoneTo, Wrong
      <3>2. \A q \in FanRequests : Concerned(q, u, Q) => Concerned(q, u, Q)'
        BY <1>a, <1>h, <2>2, <3>1 DEF Concerned, Fixes, At, Missing, TooMany
      <3>3. \A q \in Q : Missing(q)' = Missing(q) /\ TooMany(q)' = TooMany(q) /\ fans'[q].late = fans[q].late
        BY <1>a, <3>1 DEF Missing, TooMany, Deleting
      <3> QED
        BY <1>0, <3>1, <3>2, <3>3 DEF SomeoneIsConcerned
    <2> QED
      BY <2>1, <2>2
  <1> QED
    BY <1>1, <1>2, <1>g, <1>3, <1>4, <1>5 DEF FanInv

(* A handler that ran alone leaves nobody wrong.                            *)
LEMMA DeleteItemsKeeps ==
  ASSUME FanInv, NEW r \in FanRequests, DeleteItems(r)
  PROVE  FanInv'
  <1>0. FanTyped /\ Paths /\ GoneStand /\ ReadsStand /\ AloneSees /\ SomeoneIsConcerned
    BY DEF FanInv
  <1>a. /\ fans' \in [FanRequests -> FanRow]
        /\ \A q \in FanRequests \ {r} : fans'[q] = fans[q]
        /\ fans[r].at = "delete" /\ fans[r].gone = {} /\ fans'[r] = NoFan
        /\ inbox' = inbox \ TooMany(r)
        /\ Ended(r)
        /\ UNCHANGED reviews
    BY <1>0 DEF FanTyped, FanRow, Steps, Paths, DeleteItems, NoFan, At
  <1>h. /\ Reviewing' = Reviewing
        /\ \A q \in FanRequests : /\ PeopleBut(fans[q].gone)' = PeopleBut(fans[q].gone)
                                  /\ Leaving(q)' = Leaving(q)
    BY <1>0, <1>a DEF Reviewing, PeopleBut, Leaving, NoFan
  <1>1. FanTyped'
    BY <1>0, <1>a DEF FanTyped
  <1>2. Paths'
    BY <1>0, <1>a DEF Paths, At, NoFan
  <1>g. GoneStand'
    BY <1>0, <1>a DEF GoneStand, NoFan
  <1>3. ReadsStand'
    BY <1>0, <1>a, <1>h DEF ReadsStand, HaveRead, NoFan
  <1>4. AloneSees'
    <2>1. \A q \in FanRequests \ {r} : ~fans[q].alone
      BY <1>0, <1>a, <1>h DEF AloneSees, AloneNow, NoFan
    <2> QED
      BY <1>a, <1>h, <2>1 DEF AloneSees, NoFan
  <1>5. SomeoneIsConcerned'
    <2> SUFFICES ASSUME NEW u \in Readers \ overtaken', NEW Q \in SUBSET Deleting', Wrong(u)'
                 PROVE  \/ \E q \in Q : u \in (fans[q].late \cup Missing(q) \cup TooMany(q))'
                        \/ \E q \in FanRequests : Concerned(q, u, Q)'
      BY DEF SomeoneIsConcerned
    <2>1. CASE fans[r].alone
      <3>1. inbox' = fans[r].target
        BY <1>0, <1>a, <1>h, <2>1 DEF AloneSees, At, TooMany
      <3>2. u \in fans[r].target <=> u \in Reviewing
        BY <1>0, <1>a, <1>h, <2>1 DEF AloneSees, ReadsStand, HaveRead, Reviewing
      <3> QED
        BY <1>a, <1>h, <3>1, <3>2 DEF Wrong
    <2>2. CASE ~fans[r].alone
      <3>1. u \notin overtaken /\ u \notin fans[r].late
        BY <1>a, <1>h, <2>2 DEF Ended
      <3>2. u \in fans[r].target <=> u \in Reviewing
        BY <1>0, <1>a, <1>h, <3>1 DEF ReadsStand, HaveRead, Reviewing
      <3>3. u \notin TooMany(r)
        BY <1>a, <1>h, <3>2 DEF Wrong, TooMany
      <3>4. Q \in SUBSET Deleting /\ r \notin Q /\ Wrong(u) /\ GoneTo(Q)' = GoneTo(Q)
        BY <1>a, <1>h, <3>3 DEF Deleting, At, GoneTo, Wrong, NoFan
      <3>5. ~Concerned(r, u, Q)
        BY <1>a, <3>1, <3>3 DEF Concerned, Fixes, At, Leaving
      <3>6. \A q \in FanRequests : Concerned(q, u, Q) => Concerned(q, u, Q)'
        BY <1>a, <1>h, <3>4, <3>5 DEF Concerned, Fixes, At, Missing, TooMany
      <3>7. \A q \in Q : Missing(q)' = Missing(q) /\ TooMany(q)' = TooMany(q) /\ fans'[q].late = fans[q].late
        BY <1>a, <3>4 DEF Missing, TooMany, Deleting
      <3> QED
        BY <1>0, <3>1, <3>4, <3>6, <3>7 DEF SomeoneIsConcerned
    <2> QED
      BY <2>1, <2>2
  <1> QED
    BY <1>1, <1>2, <1>g, <1>3, <1>4, <1>5 DEF FanInv

(* The row goes with the handler's changes, and overtakes the handlers that *)
(* have read.                                                               *)
LEMMA CommitDeletionKeeps ==
  ASSUME FanInv, NEW r \in FanRequests, CommitDeletion(r)
  PROVE  FanInv'
  <1>0. FanTyped /\ Paths /\ GoneStand /\ ReadsStand /\ AloneSees /\ SomeoneIsConcerned
    BY DEF FanInv
  <1> DEFINE S == Leaving(r)
  <1>a. /\ fans[r].at = "commit" /\ Ended(r)
        /\ DOMAIN reviews' = DOMAIN reviews \ fans[r].gone
        /\ \A i \in DOMAIN reviews' : reviews'[i] = reviews[i]
        /\ reviews' = [i \in DOMAIN reviews' |-> reviews'[i]]
        /\ Missing(r) \subseteq inbox
        /\ inbox' = inbox \ TooMany(r)
        /\ fans[r].gone \subseteq DOMAIN reviews /\ fans[r].target \subseteq Readers
    BY <1>0 DEF CommitDeletion, Adds, At, FanTyped, FanRow, GoneStand
  <1>b. /\ FanTyped
        /\ S \in SUBSET Readers
        /\ NoFan \in FanRow
        /\ Overtaking(r, S, NoFan)
    BY <1>0, <1>a DEF NoFan, FanRow, Steps, FanTyped, Leaving, CommitDeletion
  <1> HIDE DEF S
  <1>c. /\ fans' \in [FanRequests -> FanRow]
        /\ fans'[r] = NoFan
        /\ \A q \in FanRequests \ {r} :
              /\ fans[q] = NoFan => fans'[q] = NoFan
              /\ fans'[q].at = fans[q].at /\ fans'[q].gone = fans[q].gone /\ fans'[q].row = fans[q].row
              /\ fans'[q].target = fans[q].target /\ fans'[q].existing = fans[q].existing
              /\ ~fans'[q].alone
              /\ fans[q].late \subseteq fans'[q].late
              /\ fans[q].at \in HaveRead => fans'[q].late = fans[q].late \cup S
    BY <1>b, Overtakes
  <1> USE DEF S
  <1>1. FanTyped'
    BY <1>0, <1>a, <1>c DEF FanTyped, Missing
  <1>2. Paths'
    BY <1>0, <1>c DEF Paths, At, NoFan
  <1>g. GoneStand'
    BY <1>0, <1>a, <1>c DEF GoneStand, NoFan
  <1>d. \A u \in Readers \ Leaving(r), q \in FanRequests \ {r} :
           u \in PeopleBut(fans[q].gone)' <=> u \in PeopleBut(fans[q].gone)
    BY <1>a, <1>c DEF PeopleBut, Leaving
  <1>e. Reviewing' = PeopleBut(fans[r].gone)
    BY <1>a DEF Reviewing, PeopleBut
  <1>3. ReadsStand'
    <2> SUFFICES ASSUME NEW q \in FanRequests, fans'[q].at \in HaveRead,
                        NEW u \in Readers \ fans'[q].late
                 PROVE  u \in fans'[q].target <=> u \in PeopleBut(fans[q].gone)'
      BY DEF ReadsStand
    <2>1. q # r
      BY <1>c DEF HaveRead, NoFan
    <2>2. /\ fans[q].at \in HaveRead
          /\ u \notin fans[q].late
          /\ u \in Readers \ Leaving(r)
          /\ fans'[q].target = fans[q].target /\ fans'[q].gone = fans[q].gone
      BY <1>c, <2>1
    <2>3. u \in PeopleBut(fans[q].gone)' <=> u \in PeopleBut(fans[q].gone)
      BY <1>d, <2>1, <2>2
    <2> QED
      BY <1>0, <2>2, <2>3 DEF ReadsStand
  <1>4. AloneSees'
    BY <1>c DEF AloneSees, NoFan
  <1>5. SomeoneIsConcerned'
    <2> SUFFICES ASSUME NEW u \in Readers \ overtaken', NEW Q \in SUBSET Deleting', Wrong(u)'
                 PROVE  \/ \E q \in Q : u \in (fans[q].late \cup Missing(q) \cup TooMany(q))'
                        \/ \E q \in FanRequests : Concerned(q, u, Q)'
      BY DEF SomeoneIsConcerned
    <2>1. CASE fans[r].alone
      <3>1. inbox' = fans[r].target
        BY <1>0, <1>a, <2>1 DEF AloneSees, At, Missing, TooMany
      <3>2. u \in fans[r].target <=> u \in Reviewing'
        BY <1>0, <1>a, <1>e, <2>1 DEF AloneSees, ReadsStand, HaveRead
      <3> QED
        BY <3>1, <3>2 DEF Wrong
    <2>2. CASE ~fans[r].alone
      <3>1. u \notin overtaken /\ u \notin fans[r].late /\ u \notin Leaving(r)
        BY <1>a, <2>2 DEF Ended
      <3>2. /\ u \in fans[r].target <=> u \in Reviewing
            /\ u \in Reviewing' <=> u \in Reviewing
        BY <1>0, <1>a, <1>e, <3>1, NotLeaving DEF ReadsStand, HaveRead
      <3>3. u \notin Missing(r) /\ u \notin TooMany(r)
        BY <1>a, <3>1, <3>2 DEF Wrong, Missing, TooMany
      <3>4. Wrong(u)
        BY <1>a, <3>2, <3>3 DEF Wrong
      <3>5. /\ Q \cup {r} \in SUBSET Deleting /\ r \notin Q
            /\ GoneTo(Q \cup {r}) = GoneTo(Q) \cup fans[r].gone
            /\ GoneTo(Q)' = GoneTo(Q)
        BY <1>a, <1>c DEF Deleting, At, GoneTo, NoFan
      <3>6. CASE \E q \in Q \cup {r} : u \in fans[q].late \cup Missing(q) \cup TooMany(q)
        <4>1. PICK q \in Q : u \in fans[q].late \cup Missing(q) \cup TooMany(q)
          BY <3>1, <3>3, <3>6
        <4>2. u \in (fans[q].late \cup Missing(q) \cup TooMany(q))'
          BY <1>c, <3>5, <4>1 DEF Missing, TooMany, Deleting
        <4> QED
          BY <4>2
      <3>7. CASE \E q \in FanRequests : Concerned(q, u, Q \cup {r})
        <4>1. PICK q \in FanRequests : Concerned(q, u, Q \cup {r})
          BY <3>7
        <4>2. q # r
          BY <1>a, <3>1, <4>1 DEF Concerned, Fixes, At
        <4>3. Leaving(q) \subseteq Leaving(q)'
          BY <1>0, <1>a, <1>c, <4>2 DEF Leaving, GoneStand
        <4>4. Concerned(q, u, Q)'
          BY <1>a, <1>c, <3>5, <4>1, <4>2, <4>3 DEF Concerned, Fixes, At, Missing, TooMany
        <4> QED
          BY <4>4
      <3> QED
        BY <1>0, <3>1, <3>4, <3>5, <3>6, <3>7 DEF SomeoneIsConcerned
    <2> QED
      BY <2>1, <2>2
  <1> QED
    BY <1>1, <1>2, <1>g, <1>3, <1>4, <1>5 DEF FanInv

(* Who fails leaves in doubt those he is late about, and his row is gone,   *)
(* or another looks after the others.                                       *)
LEMMA FailsKeep ==
  ASSUME FanInv, NEW r \in FanRequests,
         RowIsGone(r) \/ DeletionFails(r) \/ \E q \in FanRequests : GivenUp(r, q)
  PROVE  FanInv'
  <1>0. FanTyped /\ Paths /\ GoneStand /\ ReadsStand /\ AloneSees /\ SomeoneIsConcerned
    BY DEF FanInv
  <1>n. NoFan \in FanRow
    BY DEF NoFan, FanRow, Steps
  <1>a. /\ \A q \in FanRequests \ {r} : fans'[q] = fans[q]
        /\ fans' \in [FanRequests -> FanRow]
        /\ fans'[r] = NoFan
        /\ overtaken \cup fans[r].late \cup Leaving(r) \subseteq overtaken'
        /\ UNCHANGED <<reviews, inbox>>
    BY <1>0, <1>n DEF FanTyped, RowIsGone, DeletionFails, GivenUp, Fails
  <1>b. \A u \in Readers \ overtaken', Q \in SUBSET Deleting : ~Concerned(r, u, Q)
    <2> SUFFICES ASSUME NEW u \in Readers \ overtaken', NEW Q \in SUBSET Deleting, Concerned(r, u, Q)
                 PROVE  FALSE
      OBVIOUS
    <2>1. fans[r].row \subseteq DOMAIN reviews /\ Fixes(r, u)
      BY <1>a DEF Concerned
    <2>2. CASE RowIsGone(r)
      BY <1>0, <2>1, <2>2 DEF RowIsGone, At, Paths
    <2>3. CASE DeletionFails(r)
      BY <2>1, <2>3 DEF DeletionFails, Fixes, At
    <2>4. CASE \E q \in FanRequests : GivenUp(r, q)
      BY <2>1, <2>4 DEF GivenUp, Fails, Fixes, At
    <2> QED
      BY <2>2, <2>3, <2>4
  <1>h. /\ Reviewing' = Reviewing
        /\ \A q \in FanRequests \ {r} : /\ PeopleBut(fans[q].gone)' = PeopleBut(fans[q].gone)
                                        /\ Leaving(q)' = Leaving(q)
    BY <1>a DEF Reviewing, PeopleBut, Leaving
  <1>1. FanTyped'
    BY <1>0, <1>a DEF FanTyped
  <1>2. Paths' /\ GoneStand'
    BY <1>0, <1>a DEF Paths, GoneStand, At, NoFan
  <1>3. ReadsStand'
    BY <1>0, <1>a, <1>h DEF ReadsStand, HaveRead, NoFan
  <1>4. AloneSees'
    BY <1>0, <1>a DEF AloneSees, AloneNow, At, NoFan
  <1>5. SomeoneIsConcerned'
    <2> SUFFICES ASSUME NEW u \in Readers \ overtaken', NEW Q \in SUBSET Deleting', Wrong(u)'
                 PROVE  \/ \E q \in Q : u \in (fans[q].late \cup Missing(q) \cup TooMany(q))'
                        \/ \E q \in FanRequests : Concerned(q, u, Q)'
      BY DEF SomeoneIsConcerned
    <2>1. Q \in SUBSET Deleting /\ r \notin Q /\ Wrong(u) /\ GoneTo(Q)' = GoneTo(Q)
      BY <1>a, <1>h DEF Deleting, At, GoneTo, Wrong, NoFan
    <2>2. \A q \in FanRequests : Concerned(q, u, Q) => Concerned(q, u, Q)'
      BY <1>a, <1>b, <1>h, <2>1 DEF Concerned, Fixes, At, Missing, TooMany
    <2>3. \A q \in Q : Missing(q)' = Missing(q) /\ TooMany(q)' = TooMany(q) /\ fans'[q].late = fans[q].late
      BY <1>a, <2>1 DEF Missing, TooMany, Deleting
    <2> QED
      BY <1>0, <1>a, <2>1, <2>2, <2>3 DEF SomeoneIsConcerned
  <1> QED
    BY <1>1, <1>2, <1>3, <1>4, <1>5 DEF FanInv

(* Every step keeps the invariant.                                          *)
LEMMA FanKept == FanInv /\ [FanNext]_fanVars => FanInv'
  <1> SUFFICES ASSUME FanInv, [FanNext]_fanVars PROVE FanInv'
    OBVIOUS
  <1>1. CASE UNCHANGED fanVars
    <2>1. UNCHANGED <<reviews, inbox, fans, overtaken>>
      BY <1>1 DEF fanVars
    <2>2. (FanTyped /\ Paths /\ GoneStand /\ ReadsStand /\ AloneSees)'
      BY <2>1 DEF FanInv, FanTyped, Paths, ReadsStand, AloneSees, GoneStand, AloneNow, At, PeopleBut
    <2>3. /\ Deleting' = Deleting
          /\ \A Q : GoneTo(Q)' = GoneTo(Q)
          /\ \A q : Missing(q)' = Missing(q) /\ TooMany(q)' = TooMany(q) /\ Leaving(q)' = Leaving(q)
      BY <2>1 DEF Deleting, GoneTo, At, Missing, TooMany, Leaving
    <2>4. \A r, u, Q : Concerned(r, u, Q)' = Concerned(r, u, Q) /\ Wrong(u)' = Wrong(u)
      BY <2>1, <2>3 DEF Concerned, Fixes, Wrong, At, Reviewing, PeopleBut
    <2> QED
      BY <2>1, <2>2, <2>3, <2>4 DEF FanInv, SomeoneIsConcerned
  <1>2. CASE FanNext
    <2>1. PICK r \in FanRequests :
             \/ \E i \in ReviewRows, u \in Readers : CreateReviewer(r, i, u)
             \/ \E i \in DOMAIN reviews : \/ SaveReviewer(r, i) \/ DeleteReviewer(r, i)
                                          \/ \E u \in Readers : ChangeReviewer(r, i, u)
             \/ ReadTarget(r) \/ ReadExisting(r) \/ AddItems(r) \/ DeleteItems(r) \/ CommitDeletion(r)
             \/ RowIsGone(r) \/ DeletionFails(r) \/ \E q \in FanRequests : GivenUp(r, q)
      BY <1>2 DEF FanNext
    <2>2. \A i \in DOMAIN reviews : i \in ReviewRows /\ reviews[i] \in Readers
      BY DEF FanInv, FanTyped
    <2>3. ASSUME NEW i \in ReviewRows, NEW u \in Readers, CreateReviewer(r, i, u)
          PROVE  FanInv'
      BY <2>3, RequestsKeep
    <2>4. ASSUME NEW i \in DOMAIN reviews, SaveReviewer(r, i) \/ DeleteReviewer(r, i)
          PROVE  FanInv'
      BY <2>2, <2>4, RequestsKeep
    <2>5. ASSUME NEW i \in DOMAIN reviews, NEW u \in Readers, ChangeReviewer(r, i, u)
          PROVE  FanInv'
      BY <2>2, <2>5, RequestsKeep
    <2> QED
      BY <2>1, <2>3, <2>4, <2>5, ReadTargetKeeps, ReadExistingKeeps, AddItemsKeeps, DeleteItemsKeeps,
         CommitDeletionKeeps, FailsKeep
  <1> QED
    BY <1>1, <1>2

(* The inductive invariant of the overlapping handlers.                     *)
THEOREM FanInvariant == FanSpec => []FanInv
  BY FanInitially, FanKept, PTL DEF FanSpec

(* When no handler is under way the review inbox is right about everybody   *)
(* but those whom overlapping handlers have left in doubt.                  *)
THEOREM FanOutIsRight == FanSpec => []WrongOnlyIfOvertaken
  <1>1. FanInv => WrongOnlyIfOvertaken
    <2> SUFFICES ASSUME FanInv, \A r \in FanRequests : fans[r] = NoFan,
                        NEW u \in Readers \ overtaken, Wrong(u)
                 PROVE  FALSE
      BY DEF WrongOnlyIfOvertaken, Wrong
    <2>1. \E r \in FanRequests : Concerned(r, u, {})
      BY DEF FanInv, SomeoneIsConcerned
    <2> QED
      BY <2>1 DEF Concerned, Fixes, Leaving, NoFan, At
  <1> QED
    BY <1>1, FanInvariant, PTL
=============================================================================
