---------------------------- MODULE TimerProofs ----------------------------
(* The timer list for any number of processes and any length of sleep.     *)
(* The proof follows the sums of the differences: add_timer inserts one    *)
(* sum, del_timer takes one out, and a tick lowers all of them by one and  *)
(* drops those that come to zero.                                          *)
EXTENDS Timer, SchedProofs, WellFoundedInduction, SequenceTheorems

\* Every non-empty set of natural numbers has a least element.
LEMMA LeastNat == ASSUME NEW T \in SUBSET Nat, T # {} PROVE \E x \in T : \A y \in T : x <= y
<1> DEFINE R == OpToRel(<, Nat)
<1>1. IsWellFoundedOn(R, Nat)
  BY NatLessThanWellFounded
<1>2. \A x, y \in Nat : x < y => <<x, y>> \in R
  BY DEF OpToRel
<1> HIDE DEF R
<1>3. PICK x \in T : \A y \in T : ~ (<<y, x>> \in R)
  BY <1>1, WFMin
<1>4. \A y \in T : ~ (y < x)
  BY <1>2, <1>3
<1> QED
  BY <1>4

LEMMA GreatestNat ==
  ASSUME NEW n \in Nat, NEW T \in SUBSET (0..n), T # {} PROVE \E x \in T : \A y \in T : y <= x
<1> DEFINE U == {k \in Nat : n - k \in T}
<1>1. U \in SUBSET Nat
  OBVIOUS
<1>2. U # {}
  <2>1. PICK y \in T : TRUE
    OBVIOUS
  <2>2. n - y \in Nat /\ n - (n - y) = y
    OBVIOUS
  <2> QED
    BY <2>1, <2>2
<1>3. PICK k \in U : \A m \in U : k <= m
  BY <1>1, <1>2, LeastNat
<1>4. \A y \in T : n - y \in U
  <2> TAKE y \in T
  <2>1. n - y \in Nat /\ n - (n - y) = y
    OBVIOUS
  <2> QED
    BY <2>1
<1>5. k \in Nat /\ n - k \in T
  OBVIOUS
<1> HIDE DEF U
<1>6. \A y \in T : k <= n - y /\ y \in Nat
  BY <1>3, <1>4
<1>7. \A y \in T : y <= n - k
  BY <1>5, <1>6
<1> QED
  BY <1>5, <1>7

-----------------------------------------------------------------------------
(* The sums of the differences                                             *)

\* d[i] is the sum of the first i differences, for i up to n.
Sums(d, list, exp, n) ==
  /\ d \in [0..n -> Nat] /\ d[0] = 0
  /\ \A i \in 1..n : d[i] = d[i - 1] + exp[list[i]]

LEMMA SomeSums ==
  ASSUME NEW list \in Seq(Proc), NEW exp \in [Proc -> Nat]
  PROVE  \E d : Sums(d, list, exp, Len(list))
<1> DEFINE T == {n \in 0..Len(list) : ~ \E d : Sums(d, list, exp, n)}
<1>1. 0 \notin T
  <2>1. Sums([i \in 0..0 |-> 0], list, exp, 0)
    BY DEF Sums
  <2> QED
    BY <2>1
<1>2. ASSUME NEW n \in 0..Len(list), n # 0, NEW d, Sums(d, list, exp, n - 1)
      PROVE  \E e : Sums(e, list, exp, n)
  <2> DEFINE e == [i \in 0..n |-> IF i = n THEN d[n - 1] + exp[list[n]] ELSE d[i]]
  <2>1. n \in Nat /\ n \in 1..Len(list) /\ list[n] \in Proc /\ exp[list[n]] \in Nat
    BY <1>2
  <2>2. e \in [0..n -> Nat] /\ e[0] = 0
    BY <1>2, <2>1 DEF Sums
  <2>3. \A i \in 1..n : e[i] = e[i - 1] + exp[list[i]]
    BY <1>2, <2>1 DEF Sums
  <2>4. Sums(e, list, exp, n)
    BY <2>2, <2>3 DEF Sums
  <2> QED
    BY <2>4
<1>3. T = {}
  <2> SUFFICES ASSUME T # {} PROVE FALSE
    OBVIOUS
  <2>0. T \in SUBSET Nat
    OBVIOUS
  <2>1. PICK n \in T : \A m \in T : n <= m
    BY <2>0, LeastNat
  <2>2. n \in 0..Len(list) /\ n # 0 /\ n - 1 \in 0..Len(list) /\ n - 1 \notin T
    BY <1>1, <2>1
  <2>3. PICK d : Sums(d, list, exp, n - 1)
    BY <2>2
  <2>4. \E e : Sums(e, list, exp, n)
    BY <1>2, <2>2, <2>3
  <2> QED
    BY <2>1, <2>4
<1>4. Len(list) \in 0..Len(list)
  BY LenProperties
<1> QED
  BY <1>3, <1>4

LEMMA OneSums ==
  ASSUME NEW list, NEW exp, NEW n \in Nat, NEW d, NEW e, Sums(d, list, exp, n), Sums(e, list, exp, n)
  PROVE  d = e
<1> DEFINE T == {i \in 0..n : d[i] # e[i]}
<1>1. T = {}
  <2> SUFFICES ASSUME T # {} PROVE FALSE
    OBVIOUS
  <2>0. T \in SUBSET Nat
    OBVIOUS
  <2>1. PICK i \in T : \A j \in T : i <= j
    BY <2>0, LeastNat
  <2>2. i \in 1..n /\ i - 1 \in 0..n /\ i - 1 \notin T
    BY <2>1 DEF Sums
  <2> QED
    BY <2>1, <2>2 DEF Sums
<1>2. \A i \in 0..n : d[i] = e[i]
  BY <1>1
<1> QED
  BY <1>2 DEF Sums

LEMMA DueSums ==
  ASSUME NEW list \in Seq(Proc), NEW exp \in [Proc -> Nat]
  PROVE  Sums(Due(list, exp), list, exp, Len(list))
<1>1. PICK d : Sums(d, list, exp, Len(list))
  BY SomeSums
<1>2. d = [i \in 0..Len(list) |-> IF i = 0 THEN 0 ELSE d[i - 1] + exp[list[i]]]
  BY <1>1 DEF Sums
<1> DEFINE D == Due(list, exp)
<1>3. D = [i \in 0..Len(list) |-> IF i = 0 THEN 0 ELSE D[i - 1] + exp[list[i]]]
  BY <1>2 DEF Due
<1> HIDE DEF D
<1>0. Len(list) \in Nat
  BY LenProperties
<1> DEFINE T == {i \in 0..Len(list) : D[i] # d[i]}
<1>4. T = {}
  <2> SUFFICES ASSUME T # {} PROVE FALSE
    OBVIOUS
  <2>0. T \in SUBSET Nat
    OBVIOUS
  <2>1. PICK i \in T : \A j \in T : i <= j
    BY <2>0, LeastNat
  <2>2. i # 0
    BY <1>1, <1>3, <2>1 DEF Sums
  <2>3. i \in 1..Len(list) /\ i - 1 \in 0..Len(list) /\ i - 1 \notin T
    BY <1>0, <2>1, <2>2
  <2>4. D[i] = D[i - 1] + exp[list[i]] /\ d[i] = d[i - 1] + exp[list[i]]
    BY <1>2, <1>3, <2>3
  <2> QED
    BY <2>1, <2>3, <2>4
<1>5. D = d
  <2>1. \A i \in 0..Len(list) : D[i] = d[i]
    BY <1>4
  <2>2. DOMAIN D = 0..Len(list) /\ DOMAIN d = 0..Len(list)
    BY <1>2, <1>3
  <2>3. D = [i \in DOMAIN D |-> D[i]] /\ d = [i \in DOMAIN d |-> d[i]]
    BY <1>2, <1>3
  <2> QED
    BY <2>1, <2>2, <2>3
<1> QED
  BY <1>1, <1>5 DEF D

LEMMA SumsGrow ==
  ASSUME NEW list \in Seq(Proc), NEW exp \in [Proc -> Nat], NEW d, Sums(d, list, exp, Len(list))
  PROVE  \A i, j \in 0..Len(list) : i <= j => d[i] <= d[j]
<1> TAKE i \in 0..Len(list)
<1> DEFINE T == {j \in 0..Len(list) : i <= j /\ ~ (d[i] <= d[j])}
<1>1. T = {}
  <2> SUFFICES ASSUME T # {} PROVE FALSE
    OBVIOUS
  <2>0. T \in SUBSET Nat
    OBVIOUS
  <2>1. PICK j \in T : \A k \in T : j <= k
    BY <2>0, LeastNat
  <2>2. j # i
    <3>1. d[i] \in Nat
      BY DEF Sums
    <3> QED
      BY <2>1, <3>1
  <2>3. j \in 1..Len(list) /\ j - 1 \in 0..Len(list) /\ i <= j - 1 /\ j - 1 \notin T
    BY <2>1, <2>2
  <2>4. d[j] = d[j - 1] + exp[list[j]] /\ d[j - 1] \in Nat /\ d[i] \in Nat
    BY <2>3 DEF Sums
  <2>5. exp[list[j]] \in Nat
    BY <2>3, ElementOfSeq
  <2> QED
    BY <2>1, <2>3, <2>4, <2>5
<1> QED
  BY <1>1

-----------------------------------------------------------------------------
(* The list                                                                *)

\* No timer is linked twice, the first one is not due yet, and none is due
\* later than the longest sleep.
ListInv ==
  /\ timer_list \in Seq(Proc) /\ expires \in [Proc -> 0..MaxTime]
  /\ \A i, j \in 1..Len(timer_list) : i # j => timer_list[i] # timer_list[j]
  /\ timer_list # <<>> => expires[timer_list[1]] > 0
  /\ \A i \in 1..Len(timer_list) : Due(timer_list, expires)[i] <= MaxTime

LEMMA ListFacts ==
  ASSUME ListInv
  PROVE  /\ Len(timer_list) \in Nat /\ Linked \subseteq Proc
         /\ expires \in [Proc -> Nat]
         /\ Sums(Due(timer_list, expires), timer_list, expires, Len(timer_list))
<1>1. Len(timer_list) \in Nat
  BY LenProperties DEF ListInv
<1>2. expires \in [Proc -> Nat]
  BY MaxTimeAssumption DEF ListInv
<1>3. Linked \subseteq Proc
  BY ElementOfSeq DEF ListInv, Linked
<1> QED
  BY <1>1, <1>2, <1>3, DueSums DEF ListInv

\* No linked timer is due now: the first one is not, and the sums grow.
LEMMA DueBounds ==
  ASSUME ListInv
  PROVE  \A i \in 1..Len(timer_list) :
           Due(timer_list, expires)[i] \in 1..MaxTime /\ timer_list[i] \in Proc
<1> DEFINE L == Len(timer_list)
           d == Due(timer_list, expires)
<1> TAKE i \in 1..L
<1>1. /\ L \in Nat /\ expires \in [Proc -> Nat] /\ Sums(d, timer_list, expires, L)
      /\ timer_list \in Seq(Proc)
  BY ListFacts DEF ListInv
<1>2. i \in 0..L /\ 1 \in 0..L /\ 1 \in 1..L /\ 1 <= i
  BY <1>1
<1>3. d[1] = d[0] + expires[timer_list[1]] /\ d[0] = 0
  BY <1>1, <1>2 DEF Sums
<1>4. d[1] > 0
  BY <1>1, <1>2, <1>3, ElementOfSeq DEF ListInv
<1>5. \A j, k \in 0..L : j <= k => d[j] <= d[k]
  BY <1>1, SumsGrow
<1>6. d[i] <= MaxTime
  BY DEF ListInv
<1> HIDE DEF d
<1>7. d[1] <= d[i] /\ d[1] \in Nat /\ d[i] \in Nat
  BY <1>1, <1>2, <1>5 DEF Sums
<1>8. timer_list[i] \in Proc
  BY <1>1, ElementOfSeq
<1> QED
  BY <1>4, <1>6, <1>7, <1>8, MaxTimeAssumption DEF d

\* The ticks that are left to the owner of each timer.
LEMMA Remaining ==
  ListInv => /\ \A q \in Proc, i \in 1..Len(timer_list) :
                  timer_list[i] = q => RemainingOf(q) = Due(timer_list, expires)[i]
             /\ \A q \in Proc : q \notin Linked => RemainingOf(q) = 0
<1> SUFFICES ASSUME ListInv
             PROVE  /\ \A q \in Proc, i \in 1..Len(timer_list) :
                         timer_list[i] = q => RemainingOf(q) = Due(timer_list, expires)[i]
                    /\ \A q \in Proc : q \notin Linked => RemainingOf(q) = 0
  OBVIOUS
<1>2. ASSUME NEW q \in Proc, NEW i \in 1..Len(timer_list), timer_list[i] = q
      PROVE  RemainingOf(q) = Due(timer_list, expires)[i]
  <2>1. Place(q) \in 1..Len(timer_list) /\ timer_list[Place(q)] = q
    BY <1>2 DEF Place
  <2>2. Place(q) = i
    BY <1>2, <2>1 DEF ListInv
  <2>3. q \in Linked
    BY <1>2 DEF Linked
  <2> QED
    BY <2>2, <2>3 DEF RemainingOf
<1>3. \A q \in Proc : q \notin Linked => RemainingOf(q) = 0
  BY DEF RemainingOf
<1> QED
  BY <1>2, <1>3

\* A list is good when its sums are.
LEMMA NewList ==
  ASSUME NEW m \in Nat, NEW e, timer_list' \in Seq(Proc), Len(timer_list') = m,
         expires' \in [Proc -> Nat], Sums(e, timer_list', expires', m),
         \A i, j \in 1..m : i # j => timer_list'[i] # timer_list'[j],
         \A i \in 1..m : e[i] \in 1..MaxTime,
         \A q \in Proc \ Linked' : expires'[q] <= MaxTime
  PROVE  /\ ListInv'
         /\ \A q \in Proc, i \in 1..m : timer_list'[i] = q => RemainingOf(q)' = e[i]
         /\ \A q \in Proc : q \notin Linked' => RemainingOf(q)' = 0
<1>1. Due(timer_list', expires') = e
  BY DueSums, OneSums
<1>2. \A i \in 1..m : expires'[timer_list'[i]] <= MaxTime
  <2> TAKE i \in 1..m
  <2>1. timer_list'[i] \in Proc /\ expires'[timer_list'[i]] \in Nat
    BY ElementOfSeq
  <2>2. e[i] = e[i - 1] + expires'[timer_list'[i]] /\ e[i - 1] \in Nat
    BY DEF Sums
  <2>3. e[i] \in 1..MaxTime
    OBVIOUS
  <2> QED
    BY <2>1, <2>2, <2>3, MaxTimeAssumption
<1>3. expires' \in [Proc -> 0..MaxTime]
  <2>1. \A q \in Proc : expires'[q] <= MaxTime
    BY <1>2 DEF Linked
  <2> QED
    BY <2>1, MaxTimeAssumption
<1>4. timer_list' # <<>> => expires'[timer_list'[1]] > 0
  <2> SUFFICES ASSUME timer_list' # <<>> PROVE expires'[timer_list'[1]] > 0
    OBVIOUS
  <2>1. m # 0 /\ 1 \in 1..m
    BY EmptySeq
  <2>2. e[1] = e[0] + expires'[timer_list'[1]] /\ e[0] = 0
    BY <2>1 DEF Sums
  <2>3. timer_list'[1] \in Proc
    BY <2>1, ElementOfSeq
  <2> QED
    BY <2>1, <2>2, <2>3
<1>5. \A i \in 1..m : e[i] <= MaxTime
  BY MaxTimeAssumption
<1>6. ListInv'
  BY <1>1, <1>3, <1>4, <1>5 DEF ListInv
<1>7. (/\ \A q \in Proc, i \in 1..Len(timer_list) :
            timer_list[i] = q => RemainingOf(q) = Due(timer_list, expires)[i]
       /\ \A q \in Proc : q \notin Linked => RemainingOf(q) = 0)'
  <2>1. (ListInv =>
           /\ \A q \in Proc, i \in 1..Len(timer_list) :
                timer_list[i] = q => RemainingOf(q) = Due(timer_list, expires)[i]
           /\ \A q \in Proc : q \notin Linked => RemainingOf(q) = 0)'
    BY Remaining, PTL
  <2> QED
    BY <1>6, <2>1
<1> QED
  BY <1>1, <1>6, <1>7

LEMMA InsertFacts ==
  ASSUME NEW S, NEW s \in Seq(S), NEW i \in 1..(Len(s) + 1), NEW x \in S
  PROVE  LET r == InsertAt(s, i, x)
         IN  /\ r \in Seq(S) /\ Len(r) = Len(s) + 1
             /\ \A k \in 1..(Len(s) + 1) : r[k] = IF k < i THEN s[k] ELSE IF k = i THEN x ELSE s[k - 1]
<1> DEFINE a == SubSeq(s, 1, i - 1)
           b == SubSeq(s, i, Len(s))
           c == a \o <<x>>
<1>0. Len(s) \in Nat /\ \A k \in 1..Len(s) : s[k] \in S
  BY LenProperties, ElementOfSeq
<1>1. a \in Seq(S) /\ Len(a) = i - 1 /\ \A k \in 1..(i - 1) : a[k] = s[k]
  BY <1>0, SubSeqProperties
<1>2. b \in Seq(S) /\ Len(b) = Len(s) - i + 1 /\ \A k \in 1..(Len(s) - i + 1) : b[k] = s[i + k - 1]
  BY <1>0, SubSeqProperties
<1> HIDE DEF a, b
<1>3. <<x>> \in Seq(S) /\ Len(<<x>>) = 1 /\ <<x>>[1] = x
  OBVIOUS
<1>4. c \in Seq(S) /\ Len(c) = i /\ \A k \in 1..i : c[k] = IF k < i THEN s[k] ELSE x
  BY <1>1, <1>3, ConcatProperties
<1> HIDE DEF c
<1>5. /\ c \o b \in Seq(S) /\ Len(c \o b) = Len(s) + 1
      /\ \A k \in 1..(Len(s) + 1) : (c \o b)[k] = IF k <= i THEN c[k] ELSE b[k - i]
  <2>1. /\ c \o b \in Seq(S) /\ Len(c \o b) = Len(c) + Len(b)
        /\ \A k \in 1..(Len(c) + Len(b)) : (c \o b)[k] = IF k <= Len(c) THEN c[k] ELSE b[k - Len(c)]
    BY <1>2, <1>4, ConcatProperties
  <2>2. Len(c) + Len(b) = Len(s) + 1
    BY <1>0, <1>2, <1>4
  <2>3. Len(c) = i
    BY <1>4
  <2> QED
    BY <2>1, <2>2, <2>3
<1>6. \A k \in 1..(Len(s) + 1) : k > i => b[k - i] = s[k - 1]
  <2> TAKE k \in 1..(Len(s) + 1)
  <2> HAVE k > i
  <2>1. k - i \in 1..(Len(s) - i + 1) /\ i + (k - i) - 1 = k - 1
    BY <1>0
  <2> QED
    BY <1>2, <2>1
<1>7. \A k \in 1..(Len(s) + 1) :
        (c \o b)[k] = IF k < i THEN s[k] ELSE IF k = i THEN x ELSE s[k - 1]
  BY <1>0, <1>4, <1>5, <1>6
<1>8. InsertAt(s, i, x) = c \o b
  BY DEF InsertAt, a, b, c
<1> QED
  BY <1>5, <1>7, <1>8

LEMMA RemoveFacts ==
  ASSUME NEW S, NEW s \in Seq(S), NEW i \in 1..Len(s)
  PROVE  LET r == RemoveAt(s, i)
         IN  /\ r \in Seq(S) /\ Len(r) = Len(s) - 1
             /\ \A k \in 1..(Len(s) - 1) : r[k] = IF k < i THEN s[k] ELSE s[k + 1]
<1> DEFINE a == SubSeq(s, 1, i - 1)
           b == SubSeq(s, i + 1, Len(s))
<1>0. Len(s) \in Nat /\ \A k \in 1..Len(s) : s[k] \in S
  BY LenProperties, ElementOfSeq
<1>1. a \in Seq(S) /\ Len(a) = i - 1 /\ \A k \in 1..(i - 1) : a[k] = s[k]
  BY <1>0, SubSeqProperties
<1>2. b \in Seq(S) /\ Len(b) = Len(s) - i /\ \A k \in 1..(Len(s) - i) : b[k] = s[i + k]
  BY <1>0, SubSeqProperties
<1> HIDE DEF a, b
<1>3. /\ a \o b \in Seq(S) /\ Len(a \o b) = Len(s) - 1
      /\ \A k \in 1..(Len(s) - 1) : (a \o b)[k] = IF k <= i - 1 THEN a[k] ELSE b[k - (i - 1)]
  <2>1. /\ a \o b \in Seq(S) /\ Len(a \o b) = Len(a) + Len(b)
        /\ \A k \in 1..(Len(a) + Len(b)) : (a \o b)[k] = IF k <= Len(a) THEN a[k] ELSE b[k - Len(a)]
    BY <1>1, <1>2, ConcatProperties
  <2>2. Len(a) + Len(b) = Len(s) - 1
    BY <1>0, <1>1, <1>2
  <2>3. Len(a) = i - 1
    BY <1>1
  <2> QED
    BY <2>1, <2>2, <2>3
<1>4. \A k \in 1..(Len(s) - 1) : k >= i => b[k - (i - 1)] = s[k + 1]
  <2> TAKE k \in 1..(Len(s) - 1)
  <2> HAVE k >= i
  <2>1. k - (i - 1) \in 1..(Len(s) - i) /\ i + (k - (i - 1)) = k + 1
    BY <1>0
  <2> QED
    BY <1>2, <2>1
<1>5. \A k \in 1..(Len(s) - 1) : (a \o b)[k] = IF k < i THEN s[k] ELSE s[k + 1]
  <2> TAKE k \in 1..(Len(s) - 1)
  <2>1. k \in Int /\ i \in Int
    BY <1>0
  <2>2. CASE k < i
    <3>1. k <= i - 1 /\ k \in 1..(i - 1)
      BY <2>1, <2>2
    <3> QED
      BY <1>1, <1>3, <2>2, <3>1
  <2>3. CASE ~ (k < i)
    <3>1. ~ (k <= i - 1) /\ k >= i
      BY <2>1, <2>3
    <3> QED
      BY <1>3, <1>4, <2>3, <3>1
  <2> QED
    BY <2>2, <2>3
<1>6. RemoveAt(s, i) = a \o b
  BY DEF RemoveAt, a, b
<1> QED
  BY <1>3, <1>5, <1>6

\* add_timer gives p the ticks it asks for and no other timer more or fewer.
LEMMA AddTimer ==
  ASSUME ListInv, NEW p \in Proc, p \notin Linked, NEW n \in 1..MaxTime, add_timer(p, n)
  PROVE  /\ ListInv' /\ Linked' = Linked \cup {p}
         /\ \A q \in Proc : RemainingOf(q)' = IF q = p THEN n ELSE RemainingOf(q)
<1> DEFINE L == Len(timer_list)
           d == Due(timer_list, expires)
           later == {i \in 1..L : n < d[i]}
           at == IF later = {} THEN L + 1 ELSE CHOOSE i \in later : \A j \in later : i <= j
           left == n - d[at - 1]
           e == [i \in 0..(L + 1) |-> IF i < at THEN d[i] ELSE IF i = at THEN n ELSE d[i - 1]]
<1>1. /\ L \in Nat /\ expires \in [Proc -> Nat] /\ Sums(d, timer_list, expires, L)
      /\ timer_list \in Seq(Proc) /\ Linked \subseteq Proc
  BY ListFacts DEF ListInv
<1>2. /\ timer_list' = InsertAt(timer_list, at, p)
      /\ expires' = [q \in Proc |-> IF q = p THEN left
                                    ELSE IF later # {} /\ q = timer_list[at]
                                         THEN expires[q] - left ELSE expires[q]]
  BY DEF add_timer
<1>3. \A i \in 1..L : d[i] \in 1..MaxTime /\ timer_list[i] \in Proc
  BY DueBounds
<1>4. \A i \in 0..L : d[i] \in Nat
  BY <1>1 DEF Sums
<1> HIDE DEF d
<1>5. /\ later = {} => at = L + 1
      /\ later # {} => at \in later /\ \A j \in later : at <= j
  <2>1. later \in SUBSET Nat
    BY <1>1
  <2>2. later # {} => \E i \in later : \A j \in later : i <= j
    BY <2>1, LeastNat
  <2> QED
    BY <2>2
<1> HIDE DEF at
<1>6. /\ at \in 1..(L + 1)
      /\ later # {} => at \in 1..L /\ n < d[at]
      /\ \A i \in 1..L : i < at => d[i] <= n
      /\ \A i \in 1..L : i >= at => later # {}
  <2>0. \A i \in 1..L : i \notin later => d[i] <= n
    BY <1>3
  <2>1. CASE later = {}
    <3> HIDE DEF later, L
    <3> QED
      BY <1>1, <1>5, <2>0, <2>1
  <2>2. CASE later # {}
    <3>1. at \in 1..L /\ n < d[at]
      BY <1>5, <2>2
    <3>2. \A i \in 1..L : i < at => d[i] <= n
      <4>1. \A i \in 1..L : i < at => i \notin later
        BY <1>1, <1>5, <2>2, <3>1
      <4> QED
        BY <2>0, <4>1
    <3> QED
      BY <1>1, <2>2, <3>1, <3>2
  <2> QED
    BY <2>1, <2>2
<1> HIDE DEF later
<1>7. d[at - 1] \in Nat /\ d[at - 1] <= n
  BY <1>1, <1>4, <1>6 DEF Sums
<1>8. left \in Nat /\ left <= n /\ n = d[at - 1] + left
  BY <1>7
<1>9. later # {} => /\ timer_list[at] \in Proc /\ timer_list[at] # p
                    /\ expires[timer_list[at]] - left = d[at] - n /\ d[at] - n \in Nat
  <2> SUFFICES ASSUME later # {}
               PROVE  /\ timer_list[at] \in Proc /\ timer_list[at] # p
                      /\ expires[timer_list[at]] - left = d[at] - n /\ d[at] - n \in Nat
    OBVIOUS
  <2>1. at \in 1..L /\ n < d[at] /\ timer_list[at] \in Proc /\ timer_list[at] # p
    BY <1>3, <1>6 DEF Linked
  <2>2. d[at] = d[at - 1] + expires[timer_list[at]] /\ expires[timer_list[at]] \in Nat
    BY <1>1, <2>1 DEF Sums
  <2> QED
    BY <1>3, <1>7, <1>8, <2>1, <2>2
<1> HIDE DEF left
<1>10. /\ timer_list' \in Seq(Proc) /\ Len(timer_list') = L + 1 /\ timer_list'[at] = p
       /\ \A k \in 1..L : k < at => timer_list'[k] = timer_list[k]
       /\ \A k \in 1..L : k >= at => timer_list'[k + 1] = timer_list[k]
  <2> DEFINE r == InsertAt(timer_list, at, p)
  <2>1. /\ r \in Seq(Proc) /\ Len(r) = L + 1
        /\ \A k \in 1..(L + 1) : r[k] = IF k < at THEN timer_list[k]
                                        ELSE IF k = at THEN p ELSE timer_list[k - 1]
    BY <1>1, <1>6, InsertFacts
  <2>2. timer_list' = r
    BY <1>2
  <2> HIDE DEF r, L
  <2>3. \A k \in 1..L : k >= at => r[k + 1] = timer_list[k]
    <3> TAKE k \in 1..L
    <3> HAVE k >= at
    <3>1. k + 1 \in 1..(L + 1) /\ ~ (k + 1 < at) /\ k + 1 # at /\ (k + 1) - 1 = k
      BY <1>1, <1>6
    <3> QED
      BY <2>1, <3>1
  <2>4. \A k \in 1..L : k < at => r[k] = timer_list[k]
    BY <1>1, <2>1
  <2> QED
    BY <1>6, <2>1, <2>2, <2>3, <2>4
<1>11. expires' \in [Proc -> Nat]
  BY <1>1, <1>2, <1>8, <1>9
<1>12. /\ e \in [0..(L + 1) -> Nat] /\ e[at] = n
       /\ \A k \in 0..L : k < at => e[k] = d[k]
       /\ \A k \in 1..L : k >= at => e[k + 1] = d[k]
  <2> HIDE DEF L
  <2>1. e \in [0..(L + 1) -> Nat] /\ e[at] = n
    BY <1>1, <1>4, <1>6
  <2>2. \A k \in 1..L : k >= at => e[k + 1] = d[k]
    <3> TAKE k \in 1..L
    <3> HAVE k >= at
    <3>1. k + 1 \in 0..(L + 1) /\ ~ (k + 1 < at) /\ k + 1 # at /\ (k + 1) - 1 = k
      BY <1>1, <1>6
    <3> QED
      BY <3>1
  <2>3. \A k \in 0..L : k < at => e[k] = d[k]
    BY <1>1, <1>6
  <2> QED
    BY <2>1, <2>2, <2>3
<1> HIDE DEF e
\* Each place of the new list is one before p's, p's, or one after it.
<1>13. ASSUME NEW i \in 1..(L + 1)
       PROVE  \/ i \in 1..L /\ i < at
              \/ i = at
              \/ \E k \in 1..L : k >= at /\ i = k + 1
  <2> HIDE DEF L
  <2>1. CASE i > at
    <3>1. i - 1 \in 1..L /\ i - 1 >= at /\ i = (i - 1) + 1
      BY <1>1, <1>6, <2>1
    <3> QED
      BY <3>1
  <2> QED
    BY <1>1, <1>6, <2>1
<1>14. \A k \in 1..L : timer_list[k] # p
  BY DEF Linked
<1>15. \A k, m \in 1..L : k # m => timer_list[k] # timer_list[m]
  BY DEF ListInv
<1>16. \A i, j \in 1..(L + 1) : i # j => timer_list'[i] # timer_list'[j]
  <2> HIDE DEF L
  <2> SUFFICES ASSUME NEW i \in 1..(L + 1), NEW j \in 1..(L + 1), i < j
               PROVE  timer_list'[i] # timer_list'[j]
    BY <1>1
  <2>1. CASE i = at
    <3>1. PICK m \in 1..L : m >= at /\ j = m + 1
      BY <1>1, <1>6, <1>13, <2>1
    <3> QED
      BY <1>10, <1>14, <2>1, <3>1
  <2>2. CASE i < at
    <3>1. i \in 1..L /\ timer_list'[i] = timer_list[i]
      BY <1>1, <1>6, <1>10, <2>2
    <3>2. CASE j = at
      BY <1>10, <1>14, <3>1, <3>2
    <3>3. CASE j < at
      <4>1. j \in 1..L /\ timer_list'[j] = timer_list[j]
        BY <1>1, <1>6, <1>10, <3>3
      <4> QED
        BY <1>1, <1>15, <3>1, <4>1
    <3>4. CASE j > at
      <4>1. PICK m \in 1..L : m >= at /\ j = m + 1
        BY <1>1, <1>6, <1>13, <3>4
      <4>2. timer_list'[j] = timer_list[m] /\ m # i
        BY <1>1, <1>6, <1>10, <2>2, <4>1
      <4> QED
        BY <1>15, <3>1, <4>2
    <3> QED
      BY <1>1, <1>6, <3>2, <3>3, <3>4
  <2>3. CASE i > at
    <3>1. PICK k \in 1..L : k >= at /\ i = k + 1
      BY <1>1, <1>6, <1>13, <2>3
    <3>2. PICK m \in 1..L : m >= at /\ j = m + 1
      BY <1>1, <1>6, <1>13, <2>3
    <3>3. k # m
      BY <1>1, <3>1, <3>2
    <3> QED
      BY <1>10, <1>15, <3>1, <3>2, <3>3
  <2> QED
    BY <1>1, <1>6, <2>1, <2>2, <2>3
<1>17. ASSUME NEW k \in 1..L, later = {} \/ k # at
       PROVE  expires'[timer_list[k]] = expires[timer_list[k]]
  BY <1>2, <1>3, <1>6, <1>14, <1>15, <1>17
<1>18. Sums(e, timer_list', expires', L + 1)
  <2> HIDE DEF L
  <2>0. \A i \in 1..L : d[i] = d[i - 1] + expires[timer_list[i]]
    BY <1>1 DEF Sums
  <2>1. e[0] = 0
    <3>1. 0 \in 0..L /\ 0 < at
      BY <1>1, <1>6
    <3> QED
      BY <1>1, <1>12, <3>1 DEF Sums
  <2>2. ASSUME NEW i \in 1..(L + 1) PROVE e[i] = e[i - 1] + expires'[timer_list'[i]]
    <3>1. CASE i \in 1..L /\ i < at
      <4>1. i \in 0..L /\ i - 1 \in 0..L /\ i - 1 < at /\ i # at
        BY <1>1, <1>6, <3>1
      <4>2. e[i] = d[i] /\ e[i - 1] = d[i - 1]
        BY <1>12, <3>1, <4>1
      <4>3. expires'[timer_list'[i]] = expires[timer_list[i]]
        BY <1>10, <1>17, <3>1, <4>1
      <4> QED
        BY <2>0, <3>1, <4>2, <4>3
    <3>2. CASE i = at
      <4>1. expires'[timer_list'[i]] = left
        BY <1>2, <1>10, <3>2
      <4>2. at - 1 \in 0..L /\ at - 1 < at
        BY <1>1, <1>6
      <4>3. e[i] = n /\ e[i - 1] = d[at - 1]
        BY <1>12, <3>2, <4>2
      <4> QED
        BY <1>8, <4>1, <4>3
    <3>3. ASSUME NEW k \in 1..L, k >= at, i = k + 1 PROVE e[i] = e[i - 1] + expires'[timer_list'[i]]
      <4>1. e[i] = d[k] /\ timer_list'[i] = timer_list[k] /\ i - 1 = k
        BY <1>1, <1>10, <1>12, <3>3
      <4>2. CASE k = at
        <5>1. later # {} /\ d[at] \in Nat
          BY <1>3, <1>6, <3>3, <4>2
        <5>2. expires'[timer_list'[i]] = d[at] - n
          BY <1>2, <1>9, <4>1, <4>2, <5>1
        <5>3. e[i - 1] = n
          BY <1>12, <4>1, <4>2
        <5> QED
          BY <4>1, <4>2, <5>1, <5>2, <5>3
      <4>3. CASE k # at
        <5>1. k - 1 \in 1..L /\ k - 1 >= at /\ k = (k - 1) + 1
          BY <1>1, <1>6, <3>3, <4>3
        <5>2. e[i - 1] = d[k - 1]
          BY <1>12, <4>1, <5>1
        <5>3. expires'[timer_list'[i]] = expires[timer_list[k]]
          BY <1>17, <4>1, <4>3
        <5> QED
          BY <2>0, <4>1, <5>2, <5>3
      <4> QED
        BY <4>2, <4>3
    <3> QED
      BY <1>13, <3>1, <3>2, <3>3
  <2> QED
    BY <1>12, <2>1, <2>2 DEF Sums
<1>19. \A i \in 1..(L + 1) : e[i] \in 1..MaxTime
  <2> TAKE i \in 1..(L + 1)
  <2>1. CASE i \in 1..L /\ i < at
    BY <1>1, <1>3, <1>12, <2>1
  <2>2. CASE i = at
    BY <1>12, <2>2
  <2>3. ASSUME NEW k \in 1..L, k >= at, i = k + 1 PROVE e[i] \in 1..MaxTime
    BY <1>3, <1>12, <2>3
  <2> QED
    BY <1>13, <2>1, <2>2, <2>3
<1>20. Linked' = Linked \cup {p}
  <2>1. Linked' = {timer_list'[i] : i \in 1..(L + 1)} /\ Linked = {timer_list[i] : i \in 1..L}
    BY <1>10 DEF Linked
  <2> HIDE DEF L
  <2>2. p \in Linked'
    BY <1>6, <1>10, <2>1
  <2>3. ASSUME NEW k \in 1..L PROVE timer_list[k] \in Linked'
    <3>1. k \in 1..(L + 1) /\ k + 1 \in 1..(L + 1) /\ (k < at \/ k >= at)
      BY <1>1, <1>6
    <3> QED
      BY <1>10, <2>1, <3>1
  <2>4. ASSUME NEW i \in 1..(L + 1) PROVE timer_list'[i] \in Linked \cup {p}
    BY <1>10, <1>13, <2>1
  <2> QED
    BY <2>1, <2>2, <2>3, <2>4
<1>21. \A q \in Proc \ Linked' : expires'[q] <= MaxTime
  <2>1. ASSUME NEW q \in Proc \ Linked' PROVE expires'[q] = expires[q] /\ expires[q] <= MaxTime
    <3>1. q # p /\ (later # {} => q # timer_list[at])
      BY <1>6, <1>20 DEF Linked
    <3> QED
      BY <1>2, <3>1, MaxTimeAssumption DEF ListInv
  <2> QED
    BY <2>1
<1>22. /\ ListInv'
       /\ \A q \in Proc, i \in 1..(L + 1) : timer_list'[i] = q => RemainingOf(q)' = e[i]
       /\ \A q \in Proc : q \notin Linked' => RemainingOf(q)' = 0
  <2> DEFINE m == L + 1
  <2>1. m \in Nat
    BY <1>1
  <2>2. /\ timer_list' \in Seq(Proc) /\ Len(timer_list') = m
        /\ expires' \in [Proc -> Nat] /\ Sums(e, timer_list', expires', m)
        /\ \A i, j \in 1..m : i # j => timer_list'[i] # timer_list'[j]
        /\ \A i \in 1..m : e[i] \in 1..MaxTime
        /\ \A q \in Proc \ Linked' : expires'[q] <= MaxTime
    BY <1>10, <1>11, <1>16, <1>18, <1>19, <1>21
  <2> HIDE DEF m
  <2>3. /\ ListInv'
        /\ \A q \in Proc, i \in 1..m : timer_list'[i] = q => RemainingOf(q)' = e[i]
        /\ \A q \in Proc : q \notin Linked' => RemainingOf(q)' = 0
    BY <2>1, <2>2, NewList
  <2> QED
    BY <2>3 DEF m
<1>23. /\ \A q \in Proc, k \in 1..L : timer_list[k] = q => RemainingOf(q) = d[k]
       /\ \A q \in Proc : q \notin Linked => RemainingOf(q) = 0
  BY Remaining DEF d
<1>24. ASSUME NEW q \in Proc PROVE RemainingOf(q)' = IF q = p THEN n ELSE RemainingOf(q)
  <2>1. CASE q = p
    BY <1>6, <1>10, <1>12, <1>22, <2>1
  <2>2. CASE q \in Linked
    <3>1. PICK k \in 1..L : timer_list[k] = q
      BY <2>2 DEF Linked
    <3>2. k \in 0..L /\ k \in 1..(L + 1) /\ k + 1 \in 1..(L + 1) /\ (k < at \/ k >= at)
      BY <1>1, <1>6
    <3>3. RemainingOf(q)' = d[k]
      BY <1>10, <1>12, <1>22, <3>1, <3>2
    <3> QED
      BY <1>14, <1>23, <3>1, <3>3
  <2>3. CASE q # p /\ q \notin Linked
    BY <1>20, <1>22, <1>23, <2>3
  <2> QED
    BY <2>1, <2>2, <2>3
<1> QED
  BY <1>20, <1>22, <1>24

\* del_timer takes p's ticks away and leaves every other timer its own.
LEMMA DelTimer ==
  ASSUME ListInv, NEW p \in Proc, del_timer(p)
  PROVE  /\ ListInv' /\ Linked' = Linked \ {p}
         /\ \A q \in Proc : RemainingOf(q)' = IF q = p THEN 0 ELSE RemainingOf(q)
<1> DEFINE L == Len(timer_list)
           d == Due(timer_list, expires)
           k == Place(p)
           e == [i \in 0..(L - 1) |-> IF i < k THEN d[i] ELSE d[i + 1]]
<1>1. /\ L \in Nat /\ expires \in [Proc -> Nat] /\ Sums(d, timer_list, expires, L)
      /\ timer_list \in Seq(Proc)
  BY ListFacts DEF ListInv
<1>2. /\ \A i \in 1..L : d[i] \in 1..MaxTime /\ timer_list[i] \in Proc
      /\ \A i \in 0..L : d[i] \in Nat
  BY <1>1, DueBounds DEF Sums
<1>3. /\ \A q \in Proc, i \in 1..L : timer_list[i] = q => RemainingOf(q) = d[i]
      /\ \A q \in Proc : q \notin Linked => RemainingOf(q) = 0
  BY Remaining
<1>4. CASE p \notin Linked
  <2>1. UNCHANGED <<timer_list, expires>>
    BY <1>4 DEF del_timer
  <2>2. ListInv' /\ Linked' = Linked
    BY <2>1 DEF ListInv, Linked
  <2>3. \A q \in Proc : RemainingOf(q)' = RemainingOf(q)
    BY <2>1 DEF RemainingOf, Place, Linked
  <2> QED
    BY <1>3, <1>4, <2>2, <2>3
<1>5. CASE p \in Linked
  <2>1. k \in 1..L /\ timer_list[k] = p
    BY <1>5 DEF Place, Linked
  <2>2. /\ timer_list' = RemoveAt(timer_list, k)
        /\ expires' = [q \in Proc |-> IF k < L /\ q = timer_list[k + 1]
                                      THEN expires[q] + expires[p] ELSE expires[q]]
    BY <1>5 DEF del_timer
  <2> HIDE DEF d, k
  <2>3. \A i, j \in 1..L : i # j => timer_list[i] # timer_list[j]
    BY DEF ListInv
  <2>4. /\ timer_list' \in Seq(Proc) /\ Len(timer_list') = L - 1
        /\ \A i \in 1..(L - 1) : i < k => timer_list'[i] = timer_list[i]
        /\ \A i \in 1..(L - 1) : i >= k => timer_list'[i] = timer_list[i + 1]
    <3> DEFINE r == RemoveAt(timer_list, k)
    <3>1. /\ r \in Seq(Proc) /\ Len(r) = L - 1
          /\ \A i \in 1..(L - 1) : r[i] = IF i < k THEN timer_list[i] ELSE timer_list[i + 1]
      BY <1>1, <2>1, RemoveFacts
    <3>2. timer_list' = r
      BY <2>2
    <3> HIDE DEF r, L
    <3> QED
      BY <1>1, <2>1, <3>1, <3>2
  <2>5. expires' \in [Proc -> Nat]
    BY <1>1, <2>2
  <2>6. /\ e \in [0..(L - 1) -> Nat]
        /\ \A i \in 0..(L - 1) : i < k => e[i] = d[i]
        /\ \A i \in 0..(L - 1) : i >= k => e[i] = d[i + 1]
    <3> HIDE DEF L
    <3> QED
      BY <1>1, <1>2, <2>1
  <2> HIDE DEF e, L
  <2>7. \A i, j \in 1..(L - 1) : i # j => timer_list'[i] # timer_list'[j]
    <3> SUFFICES ASSUME NEW i \in 1..(L - 1), NEW j \in 1..(L - 1), i < j
                 PROVE  timer_list'[i] # timer_list'[j]
      BY <1>1
    <3>1. i \in 1..L /\ i + 1 \in 1..L /\ j \in 1..L /\ j + 1 \in 1..L
      BY <1>1
    <3>2. (i < k \/ i >= k) /\ (j < k \/ j >= k) /\ i # j /\ i # j + 1 /\ i + 1 # j + 1
      BY <1>1, <2>1
    <3>3. CASE i < k /\ j < k
      BY <2>3, <2>4, <3>1, <3>2, <3>3
    <3>4. CASE i < k /\ j >= k
      BY <2>3, <2>4, <3>1, <3>2, <3>4
    <3>5. CASE i >= k
      <4>1. j >= k
        BY <1>1, <2>1, <3>5
      <4> QED
        BY <2>3, <2>4, <3>1, <3>2, <3>5, <4>1
    <3> QED
      BY <3>2, <3>3, <3>4, <3>5
  <2>8. Sums(e, timer_list', expires', L - 1)
    <3>0. \A i \in 1..L : d[i] = d[i - 1] + expires[timer_list[i]]
      BY <1>1 DEF Sums
    <3>1. e[0] = 0
      <4>1. 0 \in 0..(L - 1) /\ 0 < k
        BY <1>1, <2>1
      <4> QED
        BY <1>1, <2>6, <4>1 DEF Sums
    <3>2. ASSUME NEW i \in 1..(L - 1) PROVE e[i] = e[i - 1] + expires'[timer_list'[i]]
      <4>0. i \in 1..L /\ i + 1 \in 1..L /\ i \in 0..(L - 1) /\ i - 1 \in 0..(L - 1) /\ (i + 1) - 1 = i
        BY <1>1
      <4>1. CASE i < k
        <5>1. i - 1 < k /\ (k < L => k + 1 \in 1..L /\ i # k + 1)
          BY <1>1, <2>1, <4>1
        <5>2. e[i] = d[i] /\ e[i - 1] = d[i - 1]
          BY <2>6, <4>0, <4>1, <5>1
        <5>3. expires'[timer_list'[i]] = expires[timer_list[i]]
          BY <1>2, <2>2, <2>3, <2>4, <4>0, <4>1, <5>1
        <5> QED
          BY <3>0, <4>0, <5>2, <5>3
      <4>2. CASE i = k
        <5>1. k < L /\ i >= k /\ i - 1 < k
          BY <1>1, <2>1, <4>2
        <5>2. e[i] = d[k + 1] /\ e[i - 1] = d[k - 1]
          BY <2>6, <4>0, <4>2, <5>1
        <5>3. expires'[timer_list'[i]] = expires[timer_list[k + 1]] + expires[p]
          BY <1>2, <2>2, <2>4, <4>0, <4>2, <5>1
        <5>4. d[k + 1] = d[k] + expires[timer_list[k + 1]] /\ d[k] = d[k - 1] + expires[p]
          BY <2>1, <3>0, <4>0, <4>2
        <5>5. expires[timer_list[k + 1]] \in Nat /\ expires[p] \in Nat /\ d[k - 1] \in Nat
          <6>1. k - 1 \in 0..L
            BY <1>1, <2>1
          <6> QED
            BY <1>1, <1>2, <4>0, <4>2, <6>1
        <5> QED
          BY <5>2, <5>3, <5>4, <5>5
      <4>3. CASE i > k
        <5>1. i >= k /\ i - 1 >= k /\ (i - 1) + 1 = i /\ (k < L => k + 1 \in 1..L /\ i + 1 # k + 1)
          BY <1>1, <2>1, <4>3
        <5>2. e[i] = d[i + 1] /\ e[i - 1] = d[i]
          BY <2>6, <4>0, <5>1
        <5>3. expires'[timer_list'[i]] = expires[timer_list[i + 1]]
          BY <1>2, <2>2, <2>3, <2>4, <4>0, <5>1
        <5> QED
          BY <3>0, <4>0, <5>2, <5>3
      <4> QED
        BY <1>1, <2>1, <4>1, <4>2, <4>3
    <3> QED
      BY <2>6, <3>1, <3>2 DEF Sums
  <2>9. \A i \in 1..(L - 1) : e[i] \in 1..MaxTime
    <3> TAKE i \in 1..(L - 1)
    <3>1. i \in 0..(L - 1) /\ i \in 1..L /\ i + 1 \in 1..L /\ (i < k \/ i >= k)
      BY <1>1, <2>1
    <3> QED
      BY <1>2, <2>6, <3>1
  <2>10. Linked' = {timer_list'[i] : i \in 1..(L - 1)} /\ Linked = {timer_list[i] : i \in 1..L}
    BY <2>4 DEF Linked, L
  <2>11. \A i \in 1..L : i # k => \E j \in 1..(L - 1) : timer_list'[j] = timer_list[i] /\ e[j] = d[i]
    <3> TAKE i \in 1..L
    <3> HAVE i # k
    <3>1. CASE i < k
      <4>1. i \in 1..(L - 1) /\ i \in 0..(L - 1)
        BY <1>1, <2>1, <3>1
      <4> QED
        BY <2>4, <2>6, <3>1, <4>1
    <3>2. CASE i > k
      <4>1. i - 1 \in 1..(L - 1) /\ i - 1 \in 0..(L - 1) /\ i - 1 >= k /\ (i - 1) + 1 = i
        BY <1>1, <2>1, <3>2
      <4>2. timer_list'[i - 1] = timer_list[i] /\ e[i - 1] = d[i]
        BY <2>4, <2>6, <4>1
      <4> QED
        BY <4>1, <4>2
    <3> QED
      BY <1>1, <2>1, <3>1, <3>2
  <2>12. Linked' = Linked \ {p}
    <3>1. ASSUME NEW i \in 1..(L - 1) PROVE timer_list'[i] \in Linked \ {p}
      <4>1. i \in 1..L /\ i + 1 \in 1..L /\ (i < k \/ i >= k)
        BY <1>1, <2>1
      <4>2. (i < k => i # k) /\ (i >= k => i + 1 # k)
        BY <1>1, <2>1
      <4> QED
        BY <2>1, <2>3, <2>4, <2>10, <4>1, <4>2
    <3>2. ASSUME NEW i \in 1..L, timer_list[i] # p PROVE timer_list[i] \in Linked'
      BY <2>1, <2>10, <2>11, <3>2
    <3> QED
      BY <2>10, <3>1, <3>2
  <2>13. \A q \in Proc \ Linked' : expires'[q] <= MaxTime
    <3>1. ASSUME NEW q \in Proc \ Linked' PROVE expires'[q] = expires[q] /\ expires[q] <= MaxTime
      <4>1. k < L => k + 1 \in 1..L /\ k + 1 # k
        BY <1>1, <2>1
      <4>2. k < L => q # timer_list[k + 1]
        BY <2>10, <2>11, <4>1
      <4> QED
        BY <2>2, <4>2, MaxTimeAssumption DEF ListInv
    <3> QED
      BY <3>1
  <2>14. /\ ListInv'
         /\ \A q \in Proc, i \in 1..(L - 1) : timer_list'[i] = q => RemainingOf(q)' = e[i]
         /\ \A q \in Proc : q \notin Linked' => RemainingOf(q)' = 0
    <3> DEFINE m == L - 1
    <3>1. m \in Nat
      BY <1>1, <2>1
    <3>2. /\ timer_list' \in Seq(Proc) /\ Len(timer_list') = m
          /\ expires' \in [Proc -> Nat] /\ Sums(e, timer_list', expires', m)
          /\ \A i, j \in 1..m : i # j => timer_list'[i] # timer_list'[j]
          /\ \A i \in 1..m : e[i] \in 1..MaxTime
          /\ \A q \in Proc \ Linked' : expires'[q] <= MaxTime
      BY <2>4, <2>5, <2>7, <2>8, <2>9, <2>13
    <3> HIDE DEF m
    <3>3. /\ ListInv'
          /\ \A q \in Proc, i \in 1..m : timer_list'[i] = q => RemainingOf(q)' = e[i]
          /\ \A q \in Proc : q \notin Linked' => RemainingOf(q)' = 0
      BY <3>1, <3>2, NewList
    <3> QED
      BY <3>3 DEF m
  <2>15. ASSUME NEW q \in Proc PROVE RemainingOf(q)' = IF q = p THEN 0 ELSE RemainingOf(q)
    <3>1. CASE q = p \/ q \notin Linked
      BY <1>3, <2>12, <2>14, <3>1
    <3>2. CASE q # p /\ q \in Linked
      <4>1. PICK i \in 1..L : timer_list[i] = q
        BY <2>10, <3>2
      <4>2. i # k
        BY <2>1, <3>2, <4>1
      <4>3. RemainingOf(q)' = d[i]
        BY <2>11, <2>14, <4>1, <4>2
      <4> QED
        BY <1>3, <3>2, <4>1, <4>3
    <3> QED
      BY <3>1, <3>2
  <2> QED
    BY <2>12, <2>14, <2>15
<1> QED
  BY <1>4, <1>5

\* run_timer_list on the list alone.
CountDown ==
  /\ timer_list' = SubSeq(timer_list, ExpiredLen + 1, Len(timer_list))
  /\ expires' = Counted

\* How far run_timer_list gets: the timers up to there are due at this tick
\* and those after it are not.
LEMMA ExpiredFacts ==
  ASSUME ListInv
  PROVE  LET L == Len(timer_list)
             d == Due(timer_list, expires)
         IN  /\ ExpiredLen \in 0..L
             /\ \A i \in 1..ExpiredLen : d[i] = 1
             /\ \A i \in 1..L : i > ExpiredLen => d[i] >= 2
             /\ Counted \in [Proc -> 0..MaxTime]
             /\ \A i \in 1..L : Counted[timer_list[i]] = IF i = 1 THEN expires[timer_list[i]] - 1
                                                         ELSE expires[timer_list[i]]
<1> DEFINE L == Len(timer_list)
           d == Due(timer_list, expires)
           x == ExpiredLen
           U == {i \in 1..L : \A j \in 1..i : Counted[timer_list[j]] = 0}
<1>1. /\ L \in Nat /\ expires \in [Proc -> Nat] /\ Sums(d, timer_list, expires, L)
      /\ timer_list \in Seq(Proc) /\ (timer_list # <<>> <=> L # 0)
      /\ \A i, j \in 1..L : i # j => timer_list[i] # timer_list[j]
  BY ListFacts, EmptySeq DEF ListInv
<1>2. \A i \in 1..L : d[i] \in 1..MaxTime /\ timer_list[i] \in Proc
  BY DueBounds
<1>3. \A i, j \in 0..L : i <= j => d[i] <= d[j]
  BY <1>1, SumsGrow
<1>4. x = IF U = {} THEN 0 ELSE CHOOSE i \in U : \A j \in U : j <= i
  BY DEF ExpiredLen
<1>5. L # 0 => Head(timer_list) = timer_list[1] /\ expires[timer_list[1]] > 0 /\ 1 \in 1..L
  BY <1>1 DEF ListInv
<1>6. Counted = [p \in Proc |-> IF L # 0 /\ p = timer_list[1] THEN expires[p] - 1 ELSE expires[p]]
  BY <1>1, <1>5 DEF Counted
<1>7. Counted \in [Proc -> 0..MaxTime]
  BY <1>1, <1>2, <1>5, <1>6, MaxTimeAssumption DEF ListInv
<1>8. \A i \in 1..L : Counted[timer_list[i]] = IF i = 1 THEN expires[timer_list[i]] - 1
                                               ELSE expires[timer_list[i]]
  <2> TAKE i \in 1..L
  <2>1. L # 0 /\ 1 \in 1..L
    BY <1>1
  <2>2. timer_list[i] = timer_list[1] <=> i = 1
    BY <1>1, <2>1
  <2> QED
    BY <1>2, <1>6, <2>1, <2>2
<1>9. d[0] = 0 /\ \A i \in 1..L : d[i] = d[i - 1] + expires[timer_list[i]] /\ expires[timer_list[i]] \in Nat
  BY <1>1, <1>2 DEF Sums
<1>10. U \in SUBSET (0..L)
  BY <1>1
<1>11. U # {} => x \in U /\ \A j \in U : j <= x
  <2>1. U # {} => \E i \in U : \A j \in U : j <= i
    BY <1>1, <1>10, GreatestNat
  <2> HIDE DEF U, x
  <2> QED
    BY <1>4, <2>1
<1>12. x \in 0..L /\ \A j \in 1..x : Counted[timer_list[j]] = 0
  <2>1. CASE U = {}
    <3>1. x = 0
      BY <1>4, <2>1
    <3> HIDE DEF x
    <3> QED
      BY <1>1, <3>1
  <2>2. CASE U # {}
    <3>1. x \in U
      BY <1>11, <2>2
    <3> HIDE DEF x
    <3> QED
      BY <1>1, <3>1
  <2> QED
    BY <2>1, <2>2
<1>13. x < L => Counted[timer_list[x + 1]] # 0
  <2> SUFFICES ASSUME x < L, Counted[timer_list[x + 1]] = 0 PROVE FALSE
    OBVIOUS
  <2>1. x + 1 \in 1..L /\ \A j \in 1..(x + 1) : j \in 1..x \/ j = x + 1
    BY <1>1, <1>12
  <2>2. x + 1 \in U
    BY <1>12, <2>1
  <2>3. x + 1 <= x
    BY <1>11, <2>2
  <2> QED
    BY <1>12, <2>3
<1> HIDE DEF L, d, x, U
<1>14. \A i \in 1..x : d[i] = 1
  <2> DEFINE T == {i \in 1..x : d[i] # 1}
  <2> SUFFICES ASSUME T # {} PROVE FALSE
    OBVIOUS
  <2>1. T \in SUBSET Nat
    BY <1>12
  <2>2. PICK i \in T : \A j \in T : i <= j
    BY <2>1, LeastNat
  <2>3. i \in 1..x /\ d[i] # 1 /\ i \in 1..L
    BY <1>1, <1>12
  <2>4. CASE i = 1
    <3>1. expires[timer_list[1]] - 1 = 0
      BY <1>8, <1>12, <2>3, <2>4
    <3>2. d[1] = 0 + expires[timer_list[1]] /\ expires[timer_list[1]] \in Nat
      BY <1>9, <2>3, <2>4
    <3> QED
      BY <2>3, <2>4, <3>1, <3>2
  <2>5. CASE i # 1
    <3>1. i - 1 \in 1..x /\ ~ (i <= i - 1)
      BY <1>1, <1>12, <2>3, <2>5
    <3>2. d[i - 1] = 1
      BY <2>2, <3>1
    <3>3. expires[timer_list[i]] = 0
      BY <1>8, <1>12, <2>3, <2>5
    <3> QED
      BY <1>9, <2>3, <3>2, <3>3
  <2> QED
    BY <2>4, <2>5
<1>15. x < L => d[x + 1] >= 2
  <2> SUFFICES ASSUME x < L PROVE d[x + 1] >= 2
    OBVIOUS
  <2>1. x + 1 \in 1..L /\ (x + 1) - 1 = x
    BY <1>1, <1>12
  <2>2. d[x + 1] = d[x] + expires[timer_list[x + 1]] /\ expires[timer_list[x + 1]] \in Nat
    BY <1>9, <2>1
  <2>3. Counted[timer_list[x + 1]] \in Nat /\ Counted[timer_list[x + 1]] # 0
    BY <1>2, <1>7, <1>13, <2>1
  <2>4. CASE x = 0
    <3>1. Counted[timer_list[1]] = expires[timer_list[1]] - 1
      BY <1>8, <2>1, <2>4
    <3> QED
      BY <1>9, <2>2, <2>3, <2>4, <3>1
  <2>5. CASE x # 0
    <3>1. x \in 1..x /\ x + 1 # 1
      BY <1>12, <2>5
    <3>2. Counted[timer_list[x + 1]] = expires[timer_list[x + 1]]
      BY <1>8, <2>1, <3>1
    <3> QED
      BY <1>14, <2>2, <2>3, <3>1, <3>2
  <2> QED
    BY <2>4, <2>5
<1>16. \A i \in 1..L : i > x => d[i] >= 2
  <2> TAKE i \in 1..L
  <2> HAVE i > x
  <2>1. x < L /\ x + 1 \in 0..L /\ x + 1 \in 1..L /\ i \in 0..L /\ x + 1 <= i
    BY <1>1, <1>12
  <2> QED
    BY <1>2, <1>3, <1>15, <2>1
<1> QED
  BY <1>7, <1>8, <1>12, <1>14, <1>16 DEF L, d, x

\* A tick takes one from every timer, and the owners it wakes are those whose
\* last tick it was.
LEMMA CountDownOk ==
  ASSUME ListInv, CountDown
  PROVE  /\ ListInv' /\ Linked' \subseteq Linked
         /\ \A q \in Proc : RemainingOf(q)' = IF RemainingOf(q) = 0 THEN 0 ELSE RemainingOf(q) - 1
         /\ \A q \in Proc : RemainingOf(q) = 1 => q \in Expired
<1> DEFINE L == Len(timer_list)
           d == Due(timer_list, expires)
           x == ExpiredLen
           m == L - x
           e == [i \in 0..m |-> IF i = 0 THEN 0 ELSE d[x + i] - 1]
<1>1. /\ L \in Nat /\ expires \in [Proc -> Nat] /\ Sums(d, timer_list, expires, L)
      /\ timer_list \in Seq(Proc)
      /\ \A i, j \in 1..L : i # j => timer_list[i] # timer_list[j]
  BY ListFacts DEF ListInv
<1>2. \A i \in 1..L : d[i] \in 1..MaxTime /\ timer_list[i] \in Proc
  BY DueBounds
<1>3. /\ x \in 0..L
      /\ \A i \in 1..x : d[i] = 1
      /\ \A i \in 1..L : i > x => d[i] >= 2
      /\ Counted \in [Proc -> 0..MaxTime]
      /\ \A i \in 1..L : Counted[timer_list[i]] = IF i = 1 THEN expires[timer_list[i]] - 1
                                                  ELSE expires[timer_list[i]]
  BY ExpiredFacts
<1>4. /\ \A q \in Proc, i \in 1..L : timer_list[i] = q => RemainingOf(q) = d[i]
      /\ \A q \in Proc : q \notin Linked => RemainingOf(q) = 0
  BY Remaining
<1>5. timer_list' = SubSeq(timer_list, x + 1, L) /\ expires' = Counted
  BY DEF CountDown
<1>6. Linked = {timer_list[i] : i \in 1..L} /\ Expired = {timer_list[i] : i \in 1..x}
  BY DEF Linked, Expired
<1>7. d[0] = 0 /\ \A i \in 1..L : d[i] = d[i - 1] + expires[timer_list[i]] /\ expires[timer_list[i]] \in Nat
  BY <1>1, <1>2 DEF Sums
<1> HIDE DEF d, x, L
<1>8. m \in Nat /\ \A i \in 1..m : x + i \in 1..L /\ x + i > x
  BY <1>1, <1>3
<1>9. /\ timer_list' \in Seq(Proc) /\ Len(timer_list') = m
      /\ \A i \in 1..m : timer_list'[i] = timer_list[x + i]
  <2> DEFINE r == SubSeq(timer_list, x + 1, L)
  <2>1. /\ r \in Seq(Proc) /\ Len(r) = IF x + 1 <= L THEN L - (x + 1) + 1 ELSE 0
        /\ \A i \in 1..(L - (x + 1) + 1) : r[i] = timer_list[(x + 1) + i - 1]
    <3>1. \A i \in (x + 1)..L : timer_list[i] \in Proc
      BY <1>1, <1>2, <1>3
    <3> QED
      BY <1>1, <1>3, <3>1, SubSeqProperties
  <2>2. timer_list' = r
    BY <1>5
  <2> HIDE DEF r
  <2>3. Len(r) = m /\ L - (x + 1) + 1 = m /\ \A i \in 1..m : (x + 1) + i - 1 = x + i
    BY <1>1, <1>3, <2>1
  <2> QED
    BY <2>1, <2>2, <2>3
<1> HIDE DEF m
<1>10. \A i \in 1..m : e[i] = d[x + i] - 1 /\ e[i] \in 1..MaxTime
  <2> TAKE i \in 1..m
  <2>1. d[x + i] \in 1..MaxTime /\ d[x + i] >= 2
    BY <1>2, <1>3, <1>8
  <2> QED
    BY <1>8, <2>1, MaxTimeAssumption
<1>11. e \in [0..m -> Nat] /\ e[0] = 0
  <2>1. \A i \in 0..m : i # 0 => d[x + i] - 1 \in Nat
    BY <1>2, <1>8
  <2> QED
    BY <1>8, <2>1
<1> HIDE DEF e
<1>12. Sums(e, timer_list', expires', m)
  <2>1. ASSUME NEW i \in 1..m PROVE e[i] = e[i - 1] + expires'[timer_list'[i]]
    <3>1. /\ x + i \in 1..L /\ (x + i) - 1 = x + (i - 1)
          /\ x + i = 1 <=> x = 0 /\ i = 1
      BY <1>3, <1>8
    <3>2. expires'[timer_list'[i]] = IF x + i = 1 THEN expires[timer_list[x + i]] - 1
                                     ELSE expires[timer_list[x + i]]
      BY <1>3, <1>5, <1>9, <3>1
    <3>3. /\ d[x + i] = d[x + (i - 1)] + expires[timer_list[x + i]]
          /\ expires[timer_list[x + i]] \in Nat /\ d[x + i] \in Nat
      BY <1>2, <1>7, <3>1
    <3>4. e[i] = d[x + i] - 1
      BY <1>10
    <3>5. CASE i # 1
      <4>1. i - 1 \in 1..m
        BY <1>8, <3>5
      <4>2. e[i - 1] = d[x + (i - 1)] - 1 /\ d[x + (i - 1)] \in Nat
        BY <1>2, <1>8, <1>10, <4>1
      <4> QED
        BY <3>1, <3>2, <3>3, <3>4, <3>5, <4>2
    <3>6. CASE i = 1 /\ x = 0
      BY <1>7, <1>11, <3>1, <3>2, <3>3, <3>4, <3>6
    <3>7. CASE i = 1 /\ x # 0
      <4>1. x \in 1..x /\ x + (i - 1) = x
        BY <1>3, <3>7
      <4>2. d[x] = 1
        BY <1>3, <4>1
      <4> QED
        BY <1>11, <3>1, <3>2, <3>3, <3>4, <3>7, <4>1, <4>2
    <3> QED
      BY <3>5, <3>6, <3>7
  <2> QED
    BY <1>11, <2>1 DEF Sums
<1>13. \A i, j \in 1..m : i # j => timer_list'[i] # timer_list'[j]
  <2> TAKE i, j \in 1..m
  <2> HAVE i # j
  <2>1. x + i # x + j
    BY <1>3, <1>8
  <2> QED
    BY <1>1, <1>8, <1>9, <2>1
<1>14. expires' \in [Proc -> Nat] /\ \A q \in Proc : expires'[q] <= MaxTime
  BY <1>3, <1>5, MaxTimeAssumption
<1>15. /\ ListInv'
       /\ \A q \in Proc, i \in 1..m : timer_list'[i] = q => RemainingOf(q)' = e[i]
       /\ \A q \in Proc : q \notin Linked' => RemainingOf(q)' = 0
  BY <1>8, <1>9, <1>10, <1>12, <1>13, <1>14, NewList
<1>16. Linked' = {timer_list'[i] : i \in 1..m}
  BY <1>9 DEF Linked
<1>17. Linked' \subseteq Linked
  BY <1>6, <1>8, <1>9, <1>16
<1>18. ASSUME NEW q \in Proc
       PROVE  /\ RemainingOf(q)' = IF RemainingOf(q) = 0 THEN 0 ELSE RemainingOf(q) - 1
              /\ RemainingOf(q) = 1 => q \in Expired
  <2>1. CASE q \notin Linked
    BY <1>4, <1>15, <1>17, <2>1
  <2>2. CASE q \in Linked
    <3>1. PICK i \in 1..L : timer_list[i] = q
      BY <1>6, <2>2
    <3>2. RemainingOf(q) = d[i] /\ d[i] \in Nat /\ d[i] # 0
      BY <1>2, <1>4, <3>1
    <3>3. CASE i <= x
      <4>1. i \in 1..x
        BY <1>1, <1>3, <3>3
      <4>2. ASSUME NEW j \in 1..m PROVE timer_list'[j] # q
        <5>1. x + j # i
          BY <1>3, <1>8, <3>3
        <5> QED
          BY <1>1, <1>8, <1>9, <3>1, <5>1
      <4>3. q \notin Linked' /\ q \in Expired
        BY <1>6, <1>16, <3>1, <4>1, <4>2
      <4> QED
        BY <1>3, <1>15, <3>2, <4>1, <4>3
    <3>4. CASE i > x
      <4>1. i - x \in 1..m /\ x + (i - x) = i
        BY <1>1, <1>3, <3>4 DEF m
      <4>2. RemainingOf(q)' = d[i] - 1
        BY <1>9, <1>10, <1>15, <3>1, <4>1
      <4>3. d[i] >= 2
        BY <1>3, <3>4
      <4> QED
        BY <3>2, <4>2, <4>3
    <3> QED
      BY <1>1, <1>3, <3>3, <3>4
  <2> QED
    BY <2>1, <2>2
<1> QED
  BY <1>15, <1>17, <1>18

-----------------------------------------------------------------------------
(* do_sleep on top of the list and the scheduler                           *)

\* A timer's owner sleeps for it or was woken already: no other sleep and no
\* exit comes between add_timer and del_timer.
OwnersInv ==
  /\ asleep \subseteq Proc /\ Linked \subseteq asleep
  /\ \A p \in asleep : \/ state[p] = "RUNNABLE"
                       \/ state[p] = "SLEEPING" /\ wait_state[p] = "WT_TIMER"

TimerInv == SchedInv /\ ListInv /\ OwnersInv

LEMMA TimerInitInv == ASSUME TimerInit PROVE TimerInv
<1>1. SchedInv
  BY InitInv DEF TimerInit
<1>2. timer_list = <<>> /\ Len(timer_list) = 0 /\ Linked = {}
  BY DEF TimerInit, Linked
<1>3. ListInv
  BY <1>2, MaxTimeAssumption DEF TimerInit, ListInv
<1> QED
  BY <1>1, <1>2, <1>3 DEF TimerInit, TimerInv, OwnersInv

LEMMA TimerSafe == TimerInv => TimersOk
<1> SUFFICES ASSUME TimerInv PROVE TimersOk
  OBVIOUS
<1>1. TimerTypeOK
  BY DEF TimerInv, SchedInv, ListInv, OwnersInv, TimerTypeOK
<1>2. NoDanglingTimer
  BY DEF TimerInv, ListInv, OwnersInv, NoDanglingTimer
<1>3. Expired \subseteq Linked
  <2>1. ExpiredLen \in 0..Len(timer_list) /\ Len(timer_list) \in Nat
    BY ExpiredFacts, ListFacts DEF TimerInv
  <2> QED
    BY <2>1 DEF Expired, Linked
<1>4. IrqWakes(Expired)
  BY <1>3, TimerWaitAssumption DEF IrqWakes, TimerInv, OwnersInv
<1>5. timer_list # <<>> => Head(timer_list) = timer_list[1]
  BY DEF TimerInv, ListInv
<1> QED
  BY <1>1, <1>2, <1>4, <1>5 DEF TimersOk, TickAsserts, TimerInv, ListInv

\* Each step is one of the scheduler's.
LEMMA TimerSchedStep == ASSUME TimerInv, [TimerNext]_vars PROVE [SchedNext]_schedVars
<1>1. ASSUME NEW expired \in BOOLEAN, TimerTick(expired) PROVE SchedNext
  <2>1. Expired \in SUBSET Proc
    BY TimerSafe, ListFacts, ExpiredFacts DEF TimerInv, Expired, Linked
  <2> QED
    BY <1>1, <2>1 DEF TimerTick, SchedNext
<1>2. ASSUME NEW time \in 1..MaxTime, do_sleep(time) PROVE SchedNext
  BY <1>2, TimerWaitAssumption DEF do_sleep, Sleep, SchedNext, WaitState
<1>3. ASSUME SleepDone PROVE UNCHANGED schedVars
  BY <1>3 DEF SleepDone
<1>4. ASSUME Rest PROVE SchedNext
  <2>1. ASSUME NEW p \in Proc \ KThread, Kill({p}) PROVE SchedNext
    BY <2>1 DEF SchedNext
  <2> QED
    BY <1>4, <2>1 DEF Rest, SchedNext
<1>5. ASSUME UNCHANGED vars PROVE UNCHANGED schedVars
  BY <1>5 DEF vars, schedVars
<1> QED
  BY <1>1, <1>2, <1>3, <1>4, <1>5 DEF TimerNext

Left == [p \in Proc |-> RemainingOf(p)]

\* The list and its owners after a step, and the step as the countdowns see it.
LEMMA TimerStep ==
  ASSUME TimerInv, [TimerNext]_vars
  PROVE  TimerInv' /\ [Abs!AbsNext]_Left
<1>0. SchedInv' /\ SchedInv /\ ListInv /\ OwnersInv /\ current \in Proc
  BY TimerSchedStep, StepInv DEF TimerInv, SchedInv, TypeOK
<1>1. ASSUME NEW expired \in BOOLEAN, TimerTick(expired) PROVE TimerInv' /\ Abs!AbsNext
  <2>1. wakeup_proc(Expired) /\ CountDown /\ asleep' = asleep
    BY <1>1 DEF TimerTick, TimerIrq, CountDown
  <2>2. /\ ListInv' /\ Linked' \subseteq Linked
        /\ \A q \in Proc : RemainingOf(q)' = IF RemainingOf(q) = 0 THEN 0 ELSE RemainingOf(q) - 1
        /\ \A q \in Proc : RemainingOf(q) = 1 => q \in Expired
    BY <1>0, <2>1, CountDownOk
  <2>3. OwnersInv'
    BY <1>0, <2>1, <2>2 DEF OwnersInv, wakeup_proc, NotRunnable
  <2>4. \A q \in Proc : q \in Expired => state'[q] = "RUNNABLE"
    BY <2>1 DEF wakeup_proc
  <2>5. Abs!Tick
    BY <2>2, <2>4 DEF Abs!Tick
  <2> QED
    BY <1>0, <2>2, <2>3, <2>5 DEF TimerInv, Abs!AbsNext
<1>2. ASSUME NEW time \in 1..MaxTime, do_sleep(time) PROVE TimerInv' /\ Abs!AbsNext
  <2>1. /\ current \notin Linked /\ add_timer(current, time) /\ asleep' = asleep \cup {current}
        /\ state' = [p \in Proc |-> IF p = current THEN "SLEEPING" ELSE state[p]]
        /\ wait_state' = [p \in Proc |-> IF p = current THEN "WT_TIMER" ELSE wait_state[p]]
    BY <1>0, <1>2 DEF do_sleep, Sleep, SleepAndWake, NotRunnable, OwnersInv
  <2>2. /\ ListInv' /\ Linked' = Linked \cup {current}
        /\ \A q \in Proc : RemainingOf(q)' = IF q = current THEN time ELSE RemainingOf(q)
    BY <1>0, <2>1, AddTimer
  <2>3. OwnersInv'
    BY <1>0, <2>1, <2>2 DEF OwnersInv
  <2>4. RemainingOf(current) = 0
    BY <1>0, <2>1, Remaining
  <2>5. Abs!Arm(current, time)
    BY <1>0, <2>2, <2>4 DEF Abs!Arm
  <2> QED
    BY <1>0, <2>2, <2>3, <2>5 DEF TimerInv, Abs!AbsNext
<1>3. ASSUME SleepDone PROVE TimerInv' /\ Abs!AbsNext
  <2>1. del_timer(current) /\ asleep' = asleep \ {current} /\ state' = state /\ wait_state' = wait_state
    BY <1>3 DEF SleepDone, schedVars
  <2>2. /\ ListInv' /\ Linked' = Linked \ {current}
        /\ \A q \in Proc : RemainingOf(q)' = IF q = current THEN 0 ELSE RemainingOf(q)
    BY <1>0, <2>1, DelTimer
  <2>3. OwnersInv'
    BY <1>0, <2>1, <2>2 DEF OwnersInv
  <2>4. Abs!Cancel(current)
    BY <1>0, <2>2 DEF Abs!Cancel
  <2> QED
    BY <1>0, <2>2, <2>3, <2>4 DEF TimerInv, Abs!AbsNext
<1>4. ASSUME UNCHANGED timerVars,
             \A p \in asleep : \/ state'[p] = state[p] /\ wait_state'[p] = wait_state[p]
                               \/ state'[p] = "RUNNABLE"
      PROVE  TimerInv' /\ UNCHANGED Left
  <2>1. timer_list' = timer_list /\ expires' = expires /\ asleep' = asleep
    BY <1>4 DEF timerVars
  <2>2. ListInv' /\ Linked' = Linked
    BY <1>0, <2>1 DEF ListInv, Linked
  <2>3. OwnersInv'
    BY <1>0, <1>4, <2>1, <2>2 DEF OwnersInv
  <2>4. \A q \in Proc : RemainingOf(q)' = RemainingOf(q)
    BY <2>1 DEF RemainingOf, Place, Linked
  <2> QED
    BY <1>0, <2>2, <2>3, <2>4 DEF TimerInv, Left
<1>5. ASSUME Rest PROVE TimerInv' /\ UNCHANGED Left
  <2>1. UNCHANGED timerVars
    BY <1>5 DEF Rest
  <2>2. CASE schedule \/ TrapEnter \/ TrapExit \/ CallSchedule
    BY <1>4, <2>1, <2>2 DEF schedule, TrapEnter, TrapExit, CallSchedule
  <2>3. CASE \E p \in Proc \ KThread : Kill({p})
    BY <1>0, <1>4, <2>1, <2>3 DEF Kill, wakeup_proc, NotRunnable, OwnersInv
  <2>4. CASE Exit({}) /\ current \notin asleep
    BY <1>0, <1>4, <2>1, <2>4 DEF Exit, NotRunnable, OwnersInv
  <2> QED
    BY <1>5, <2>2, <2>3, <2>4 DEF Rest
<1>6. ASSUME UNCHANGED vars PROVE TimerInv' /\ UNCHANGED Left
  BY <1>4, <1>6 DEF vars, timerVars, schedVars
<1> QED
  BY <1>1, <1>2, <1>3, <1>5, <1>6 DEF TimerNext

\* The list holds no timer whose stack frame was left, none twice, and a tick
\* that comes now passes the assertions of run_timer_list and wakeup_proc:
\* with any number of sleepers, killed or not.
THEOREM TimersSafe == TimerSpec => []TimersOk
<1>1. TimerSpec => []TimerInv
  BY TimerInitInv, TimerStep, PTL DEF TimerSpec
<1> QED
  BY <1>1, TimerSafe, PTL

\* do_sleep and run_timer_list change the state of a process only in ways
\* that wakeup_proc and schedule() allow for.
THEOREM TimerImplementsSched == TimerSpec => SchedSpec
<1>1. TimerInit => SchedInit
  BY DEF TimerInit
<1> QED
  BY <1>1, TimerInitInv, TimerStep, TimerSchedStep, PTL DEF TimerSpec, SchedSpec

\* A process that calls do_sleep(n) is woken at the n-th tick, whatever other
\* timers add_timer puts before or after its own and del_timer takes away.
THEOREM CountdownsExact == TimerSpec => ImplementsCountdowns
<1>1. TimerInit => Abs!AbsInit
  <2> SUFFICES ASSUME TimerInit PROVE Abs!AbsInit
    OBVIOUS
  <2>0. timer_list = <<>> /\ Len(timer_list) = 0 /\ Linked = {}
    BY DEF TimerInit, Linked
  <2>1. \A p \in Proc : RemainingOf(p) = 0
    BY <2>0 DEF RemainingOf
  <2> QED
    BY <2>1 DEF Abs!AbsInit
<1>2. TimerInv /\ [TimerNext]_vars => TimerInv' /\ [Abs!AbsNext]_[p \in Proc |-> RemainingOf(p)]
  BY TimerStep DEF Left
<1> QED
  BY <1>1, <1>2, TimerInitInv, PTL DEF TimerSpec, ImplementsCountdowns, Abs!AbsSpec

=============================================================================
