----------------------------- MODULE MlfqProofs -----------------------------
(* The multi-level feedback queues for any number of processes and queues  *)
(* and any length of slice.  QueuesOk is inductive: that a process is      *)
(* linked once follows from proc->rq, which names one queue, and from a    *)
(* process on the CPU not being linked; that it has a slice of its queue   *)
(* follows from no one but the current process using up its slice.         *)
EXTENDS Mlfq, TLAPS, WellFoundedInduction

\* Every non-empty set of natural numbers has a least element.
LEMMA LeastNat == ASSUME NEW T \in SUBSET Nat, T # {} PROVE \E x \in T : \A y \in T : x <= y
<1> DEFINE R == OpToRel(<, Nat)
<1>1. IsWellFoundedOn(R, Nat)
  BY NatLessThanWellFounded
<1>2. \A x, y \in Nat : x < y => <<x, y>> \in R
  BY DEF OpToRel
<1> HIDE DEF R
<1>3. PICK x \in T : \A y \in T : ~ (<<y, x>> \in R)
  BY <1>1, WFMin
<1>4. \A y \in T : ~ (y < x)
  BY <1>2, <1>3
<1> QED
  BY <1>4

-----------------------------------------------------------------------------
(* The lengths of the slices                                               *)

Doubles(f, n) == \A i \in 1..n : f[i] = IF i = 1 THEN TopSlice ELSE 2 * f[i - 1]

\* The loop of sched_init can go on for as many queues as there are.
LEMMA SomeSlices == \E f \in [Level -> Nat \ {0}] : Doubles(f, NLevel)
<1> USE MlfqAssumption
<1> DEFINE Possible(n) == \E f \in [1..n -> Nat \ {0}] : Doubles(f, n)
           T == {n \in Nat : ~ Possible(n)}
<1>1. Possible(0)
  <2> DEFINE f == [i \in 1..0 |-> 1]
  <2>1. f \in [1..0 -> Nat \ {0}] /\ Doubles(f, 0)
    BY DEF Doubles
  <2> QED
    BY <2>1
<1>2. ASSUME NEW n \in Nat, Possible(n) PROVE Possible(n + 1)
  <2>1. PICK f \in [1..n -> Nat \ {0}] : Doubles(f, n)
    BY <1>2
  <2> DEFINE g == [i \in 1..(n + 1) |-> IF i <= n THEN f[i] ELSE IF n = 0 THEN TopSlice ELSE 2 * f[n]]
  <2>2. g \in [1..(n + 1) -> Nat \ {0}]
    OBVIOUS
  <2>3. \A i \in 1..(n + 1) : i # 1 => i - 1 \in 1..n
    OBVIOUS
  <2>4. Doubles(g, n + 1)
    BY <2>1, <2>3 DEF Doubles
  <2> QED
    BY <2>2, <2>4
<1> HIDE DEF Possible
<1>3. T = {}
  <2>1. SUFFICES ASSUME T # {} PROVE FALSE
    OBVIOUS
  <2>2. PICK n \in T : \A m \in T : n <= m
    BY <2>1, LeastNat
  <2>3. n \in Nat /\ n # 0 /\ ~ Possible(n)
    BY <2>2, <1>1
  <2>4. n - 1 \in Nat /\ n - 1 \notin T
    BY <2>2, <2>3
  <2>5. Possible((n - 1) + 1)
    BY <2>4, <1>2
  <2> QED
    BY <2>3, <2>5
<1>4. Possible(NLevel)
  BY <1>3
<1> QED
  BY <1>4 DEF Possible, Level

\* Each queue has a slice of at least one tick.
LEMMA SliceType == max_time_slice \in [Level -> Nat \ {0}]
<1>1. PICK f \in [Level -> Nat \ {0}] : Doubles(f, NLevel)
  BY SomeSlices
<1>2. f = [i \in Level |-> IF i = 1 THEN TopSlice ELSE 2 * f[i - 1]]
  BY <1>1 DEF Doubles, Level
<1>3. max_time_slice = [i \in Level |-> IF i = 1 THEN TopSlice ELSE 2 * max_time_slice[i - 1]]
  BY <1>2 DEF max_time_slice
<1> DEFINE T == {n \in Level : max_time_slice[n] \notin Nat \ {0}}
<1>4. T = {}
  <2>1. SUFFICES ASSUME T # {} PROVE FALSE
    OBVIOUS
  <2>2. T \in SUBSET Nat
    BY MlfqAssumption DEF Level
  <2>3. PICK n \in T : \A m \in T : n <= m
    BY <2>1, <2>2, LeastNat
  <2>4. n \in Level /\ max_time_slice[n] = IF n = 1 THEN TopSlice ELSE 2 * max_time_slice[n - 1]
    BY <1>3
  <2>5. n # 1
    BY <2>3, <2>4, MlfqAssumption
  <2>6. n - 1 \in Level /\ n - 1 \notin T
    BY <2>3, <2>4, <2>5, MlfqAssumption DEF Level
  <2> QED
    BY <2>3, <2>4, <2>5, <2>6
<1> QED
  BY <1>3, <1>4

-----------------------------------------------------------------------------
(* The queues, levels and slices by themselves, before and after each of   *)
(* the two halves of schedule().                                           *)

In(q) == UNION {Members(q[i]) : i \in Level}

Distinct(s) == \A k, m \in 1..Len(s) : s[k] = s[m] => k = m

Fits(q, l, s) ==
  /\ q \in [Level -> Seq(User)] /\ l \in [Proc -> 0..NLevel] /\ s \in [Proc -> Nat]
  /\ \A i \in Level : Distinct(q[i])
  /\ \A i \in Level : \A p \in Members(q[i]) : l[p] = i /\ s[p] \in 1..max_time_slice[i]

Apart == {current, idleproc} \cup Queued \subseteq alive /\ alive \subseteq Proc /\ current \notin Queued

LEMMA FitsIsOk == QueuesOk <=> Fits(queue, level, time_slice) /\ Apart /\ need_resched \in BOOLEAN
<1>1. ASSUME queue \in [Level -> Seq(User)]
      PROVE  LinkedOnce <=> /\ current \notin Queued
                            /\ \A i \in Level : Distinct(queue[i])
                            /\ \A i \in Level : \A p \in Members(queue[i]) : level[p] = i
  BY <1>1 DEF LinkedOnce, Distinct, Members
<1>2. time_slice \in [Proc -> Nat] <=> time_slice \in [Proc -> Int] /\ SliceNotNegative
  BY DEF SliceNotNegative
<1> QED
  BY <1>1, <1>2 DEF QueuesOk, MlfqTypeOK, QueuedSlice, Fits, Apart

LEMMA FitsIsOkNext == Fits(queue', level', time_slice') /\ Apart' /\ need_resched' \in BOOLEAN => QueuesOk'
<1>1. (QueuesOk <=> Fits(queue, level, time_slice) /\ Apart /\ need_resched \in BOOLEAN)'
  BY FitsIsOk, PTL
<1> QED
  BY <1>1

LEMMA MembersAppend ==
  ASSUME NEW S, NEW s \in Seq(S), NEW p \in S
  PROVE  /\ Members(Append(s, p)) = Members(s) \cup {p}
         /\ Distinct(s) /\ p \notin Members(s) => Distinct(Append(s, p))
<1>1. /\ Len(Append(s, p)) = Len(s) + 1 /\ Len(s) \in Nat
      /\ \A k \in 1..Len(s) : Append(s, p)[k] = s[k]
      /\ Append(s, p)[Len(s) + 1] = p
  OBVIOUS
<1>2. Members(Append(s, p)) \subseteq Members(s) \cup {p}
  BY <1>1 DEF Members
<1>3. Members(s) \subseteq Members(Append(s, p)) /\ p \in Members(Append(s, p))
  BY <1>1 DEF Members
<1>4. ASSUME Distinct(s), p \notin Members(s) PROVE Distinct(Append(s, p))
  BY <1>1, <1>4 DEF Members, Distinct
<1> QED
  BY <1>2, <1>3, <1>4

LEMMA MembersTail ==
  ASSUME NEW S, NEW s \in Seq(S), s # <<>>, Distinct(s)
  PROVE  /\ Head(s) \in Members(s) /\ Tail(s) \in Seq(S)
         /\ Members(Tail(s)) = Members(s) \ {Head(s)}
         /\ Distinct(Tail(s))
<1>1. /\ Len(s) \in Nat \ {0} /\ Head(s) = s[1]
      /\ Tail(s) \in Seq(S) /\ Len(Tail(s)) = Len(s) - 1
      /\ \A k \in 1..(Len(s) - 1) : Tail(s)[k] = s[k + 1]
  OBVIOUS
<1>2. Head(s) \in Members(s)
  BY <1>1 DEF Members
<1>3. Members(Tail(s)) \subseteq Members(s) \ {Head(s)}
  BY <1>1 DEF Members, Distinct
<1>4. ASSUME NEW k \in 1..Len(s), s[k] # Head(s) PROVE s[k] \in Members(Tail(s))
  <2>1. k - 1 \in 1..(Len(s) - 1)
    BY <1>1, <1>4
  <2>2. Tail(s)[k - 1] = s[k]
    BY <1>1, <2>1
  <2> QED
    BY <1>1, <2>1, <2>2 DEF Members
<1>5. Distinct(Tail(s))
  BY <1>1 DEF Distinct
<1>6. \A x \in Members(s) : x # Head(s) => x \in Members(Tail(s))
  <2> TAKE x \in Members(s)
  <2>1. PICK k \in 1..Len(s) : x = s[k]
    BY DEF Members
  <2> QED
    BY <1>4, <2>1
<1> QED
  BY <1>1, <1>2, <1>3, <1>5, <1>6

\* sched_class_enqueue of a process that is not linked.
LEMMA Enqueued ==
  ASSUME Fits(queue, level, time_slice), NEW p \in User, p \notin Queued
  PROVE  LET r == Requeued({p})
         IN  Fits(r.queue, r.level, r.slice) /\ In(r.queue) = Queued \cup {p}
<1> DEFINE n == TargetLevel(p)
           q == [queue EXCEPT ![n] = Append(@, p)]
           l == [x \in Proc |-> IF x \in {p} THEN n ELSE level[x]]
           s == [x \in Proc |-> IF x \in {p} THEN Refill(p) ELSE time_slice[x]]
<1>0. (CHOOSE x \in {p} : TRUE) = p
  OBVIOUS
<1>1. Requeued({p}) = [queue |-> q, level |-> l, slice |-> s]
  BY <1>0 DEF Requeued, PutAfter
<1>2. n \in Level
  BY MlfqAssumption DEF TargetLevel, Level, Fits, User
<1>3. Refill(p) \in 1..max_time_slice[n]
  BY <1>2, SliceType DEF Refill, Fits, User
<1>4. \A i \in Level : Members(q[i]) = Members(queue[i]) \cup (IF i = n THEN {p} ELSE {})
  BY <1>2, MembersAppend DEF Fits
<1>5. q \in [Level -> Seq(User)] /\ l \in [Proc -> 0..NLevel] /\ s \in [Proc -> Nat]
  BY <1>2, <1>3, SliceType, MlfqAssumption DEF Fits, Level
<1>6. \A i \in Level : p \notin Members(queue[i])
  BY DEF Queued
<1>7. \A i \in Level : Distinct(q[i])
  BY <1>2, <1>6, MembersAppend DEF Fits
<1>8. \A i \in Level : \A x \in Members(q[i]) : l[x] = i /\ s[x] \in 1..max_time_slice[i]
  <2> SUFFICES ASSUME NEW i \in Level, NEW x \in Members(q[i])
               PROVE  l[x] = i /\ s[x] \in 1..max_time_slice[i]
    OBVIOUS
  <2>1. CASE x = p
    <3>1. i = n
      BY <1>4, <1>6, <2>1
    <3>2. p \in Proc
      BY DEF User
    <3> QED
      BY <1>3, <2>1, <3>1, <3>2
  <2>2. CASE x # p
    <3>1. x \in Members(queue[i])
      BY <1>4, <2>2
    <3>2. x \in Proc
      BY <3>1 DEF Members, Fits, User
    <3> QED
      BY <2>2, <3>1, <3>2 DEF Fits
  <2> QED
    BY <2>1, <2>2
<1>9. In(q) = Queued \cup {p}
  BY <1>2, <1>4 DEF In, Queued
<1>10. Fits(q, l, s)
  BY <1>5, <1>7, <1>8 DEF Fits
<1> HIDE DEF q, l, s
<1> QED
  BY <1>1, <1>9, <1>10

\* sched_class_pick_next and sched_class_dequeue.
LEMMA Dequeued ==
  ASSUME NEW q, NEW l, NEW s, Fits(q, l, s), NEW i, i = PickLevel(q)
  PROVE  /\ i = 0 => In(q) = {}
         /\ i # 0 => /\ Head(q[i]) \in In(q) /\ Head(q[i]) \in User
                     /\ Fits([q EXCEPT ![i] = Tail(@)], l, s)
                     /\ In([q EXCEPT ![i] = Tail(@)]) = In(q) \ {Head(q[i])}
<1>1. CASE \A j \in Level : q[j] = <<>>
  <2>1. i = 0
    BY <1>1 DEF PickLevel
  <2>2. \A j \in Level : Members(q[j]) = {}
    BY <1>1 DEF Members
  <2> QED
    BY <2>1, <2>2 DEF In
<1>2. CASE ~ \A j \in Level : q[j] = <<>>
  <2> DEFINE T == {j \in Level : q[j] # <<>>}
             r == [q EXCEPT ![i] = Tail(@)]
  <2>1. T \in SUBSET Nat /\ T # {}
    BY <1>2 DEF Level
  <2>2. PICK k \in T : \A j \in T : k <= j
    BY <2>1, LeastNat
  <2>3. \A j \in 1..(k - 1) : q[j] = <<>>
    BY <2>2, MlfqAssumption DEF Level
  <2>4. i \in Level /\ q[i] # <<>>
    BY <1>2, <2>2, <2>3 DEF PickLevel
  <2>5. /\ Head(q[i]) \in Members(q[i]) /\ Tail(q[i]) \in Seq(User)
        /\ Members(Tail(q[i])) = Members(q[i]) \ {Head(q[i])} /\ Distinct(Tail(q[i]))
    BY <2>4, MembersTail DEF Fits
  <2>6. ASSUME NEW j \in Level, j # i PROVE Head(q[i]) \notin Members(q[j])
    <3>1. l[Head(q[i])] = i
      BY <2>4, <2>5 DEF Fits
    <3> QED
      BY <2>6, <3>1 DEF Fits
  <2>7. \A j \in Level : Members(r[j]) = Members(q[j]) \ {Head(q[i])}
    BY <2>4, <2>5, <2>6 DEF Fits
  <2>9. Fits(r, l, s)
    BY <2>4, <2>5, <2>7 DEF Fits
  <2> HIDE DEF r
  <2>8. In(r) = In(q) \ {Head(q[i])}
    <3>1. \A x : x \in In(r) <=> \E j \in Level : x \in Members(r[j])
      BY DEF In
    <3>2. \A x : x \in In(q) <=> \E j \in Level : x \in Members(q[j])
      BY DEF In
    <3>3. \A x : \A j \in Level : x \in Members(r[j]) <=> x \in Members(q[j]) /\ x # Head(q[i])
      BY <2>7
    <3>4. \A x : x \in In(r) <=> x \in In(q) /\ x # Head(q[i])
      BY <3>1, <3>2, <3>3
    <3> QED
      BY <3>4
  <2>10. Head(q[i]) \in In(q) /\ Head(q[i]) \in User /\ i # 0
    BY <2>4, <2>5 DEF In, Members, Fits, Level
  <2> QED
    BY <2>8, <2>9, <2>10 DEF r
<1> QED
  BY <1>1, <1>2

\* schedule(): what it leaves in the queues, and whom it picks.
LEMMA Switched ==
  ASSUME QueuesOk, NEW back \in SUBSET {current}, Switch(back)
  PROVE  LET all == Queued \cup (back \ {idleproc})
         IN  /\ Fits(queue', level', time_slice')
             /\ \/ all = {} /\ current' = idleproc /\ Queued' = {}
                \/ current' \in all /\ Queued' = all \ {current'}
<1> DEFINE S == back \ {idleproc}
           r == Requeued(S)
           i == PickLevel(r.queue)
<1>0. Fits(queue, level, time_slice) /\ Apart
  BY FitsIsOk
<1>1. Fits(r.queue, r.level, r.slice) /\ In(r.queue) = Queued \cup S
  <2>1. CASE S = {}
    <3>1. level = [p \in Proc |-> level[p]] /\ time_slice = [p \in Proc |-> time_slice[p]]
      BY <1>0 DEF Fits
    <3>2. r = [queue |-> queue, level |-> level, slice |-> time_slice]
      BY <2>1, <3>1 DEF Requeued
    <3>3. r.queue = queue /\ r.level = level /\ r.slice = time_slice
      BY <3>2
    <3>4. In(queue) = Queued
      BY DEF In, Queued
    <3> QED
      BY <1>0, <2>1, <3>3, <3>4
  <2>2. CASE S # {}
    <3>1. S = {current} /\ current \in User /\ current \notin Queued
      BY <1>0, <2>2 DEF Apart, User
    <3> QED
      BY <1>0, <3>1, Enqueued
  <2> QED
    BY <2>1, <2>2
<1>2. /\ level' = r.level /\ time_slice' = r.slice
      /\ current' = IF i = 0 THEN idleproc ELSE Head(r.queue[i])
      /\ queue' = IF i = 0 THEN r.queue ELSE [r.queue EXCEPT ![i] = Tail(@)]
  BY DEF Switch
<1> HIDE DEF r, i
<1>3. /\ i = 0 => In(r.queue) = {}
      /\ i # 0 => /\ Head(r.queue[i]) \in In(r.queue)
                  /\ Fits([r.queue EXCEPT ![i] = Tail(@)], r.level, r.slice)
                  /\ In([r.queue EXCEPT ![i] = Tail(@)]) = In(r.queue) \ {Head(r.queue[i])}
  <2>1. i = PickLevel(r.queue)
    BY DEF i
  <2> QED
    BY <1>1, <2>1, Dequeued
<1>4. Queued' = In(queue')
  BY DEF In, Queued
<1> QED
  BY <1>1, <1>2, <1>3, <1>4

-----------------------------------------------------------------------------

LEMMA InitOk == ASSUME MlfqInit PROVE QueuesOk
<1>1. \A i \in Level : Members(queue[i]) = {}
  BY DEF MlfqInit, Members
<1>2. Queued = {}
  BY <1>1 DEF Queued
<1> QED
  BY <1>1, <1>2, MlfqAssumption
  DEF MlfqInit, QueuesOk, MlfqTypeOK, LinkedOnce, QueuedSlice, SliceNotNegative

LEMMA WakeOk == ASSUME QueuesOk, NEW p \in User, Wake(p) PROVE QueuesOk' /\ Queued' = Queued \cup {p}
<1> DEFINE r == Requeued({p})
<1>1. Fits(r.queue, r.level, r.slice) /\ In(r.queue) = Queued \cup {p}
  BY FitsIsOk, Enqueued DEF Wake
<1>2. queue' = r.queue /\ level' = r.level /\ time_slice' = r.slice
  BY DEF Wake
<1> HIDE DEF r
<1>3. Fits(queue', level', time_slice') /\ In(queue') = Queued \cup {p}
  BY <1>1, <1>2
<1>4. Queued' = In(queue')
  BY DEF In, Queued
<1>5. Apart' /\ need_resched' \in BOOLEAN
  BY <1>3, <1>4, FitsIsOk DEF Apart, Wake
<1> QED
  BY <1>3, <1>4, <1>5, FitsIsOkNext

\* What follows a schedule() of the current process, which may have ended.
LEMMA SwitchOk ==
  ASSUME QueuesOk, NEW back \in SUBSET {current}, Switch(back), need_resched' = FALSE,
         \/ alive' = alive
         \/ alive' = alive \ {current} /\ current # idleproc /\ back = {}
  PROVE  QueuesOk' /\ Class!Switch(back)
<1> DEFINE all == Queued \cup (back \ {idleproc})
<1>1. /\ Fits(queue', level', time_slice')
      /\ \/ all = {} /\ current' = idleproc /\ Queued' = {}
         \/ current' \in all /\ Queued' = all \ {current'}
  BY Switched
<1>2. Class!Switch(back)
  BY <1>1 DEF Class!Switch
<1>3. Apart
  BY FitsIsOk
<1>4. all \cup {idleproc} \subseteq alive'
  BY <1>3 DEF Apart
<1> HIDE DEF all
<1>5. Apart'
  BY <1>1, <1>3, <1>4 DEF Apart
<1> QED
  BY <1>1, <1>2, <1>5, FitsIsOkNext

\* Steps that leave the queues alone, and the slices of who is in them.
LEMMA SlicesOk ==
  ASSUME QueuesOk, UNCHANGED <<queue, current>>, need_resched' \in BOOLEAN,
         time_slice' \in [Proc -> Nat], level' \in [Proc -> 0..NLevel],
         \A p \in Queued : time_slice'[p] = time_slice[p] /\ level'[p] = level[p],
         alive \subseteq alive', alive' \subseteq Proc
  PROVE  QueuesOk' /\ UNCHANGED <<current, Queued>>
<1>1. Fits(queue, level, time_slice) /\ Apart
  BY FitsIsOk
<1>2. Queued' = Queued
  BY DEF Queued
<1>3. \A i \in Level : \A p \in Members(queue[i]) : p \in Queued
  BY DEF Queued
<1>4. Fits(queue', level', time_slice')
  BY <1>1, <1>3 DEF Fits
<1>5. Apart'
  BY <1>1, <1>2 DEF Apart
<1> QED
  BY <1>2, <1>4, <1>5, FitsIsOkNext

LEMMA ProcTickOk == ASSUME QueuesOk, ProcTick PROVE QueuesOk' /\ UNCHANGED <<current, Queued>>
<1>1. Fits(queue, level, time_slice) /\ Apart /\ need_resched \in BOOLEAN
  BY FitsIsOk
<1>2. time_slice' \in [Proc -> Nat] /\ need_resched' \in BOOLEAN
  BY <1>1 DEF ProcTick, Fits, Apart
<1>3. \A p \in Queued : time_slice'[p] = time_slice[p]
  BY <1>1 DEF ProcTick, Fits, Apart
<1> QED
  BY <1>1, <1>2, <1>3, SlicesOk DEF ProcTick, Fits, Apart

LEMMA ForkOk ==
  ASSUME QueuesOk, NEW c \in User, NEW tick \in BOOLEAN, Fork(c, tick)
  PROVE  QueuesOk' /\ UNCHANGED <<current, Queued>>
<1> DEFINE left == IF tick /\ current # idleproc /\ time_slice[current] > 0
                   THEN time_slice[current] - 1 ELSE time_slice[current]
<1>1. Fits(queue, level, time_slice) /\ Apart /\ need_resched \in BOOLEAN
  BY FitsIsOk
<1>2. c \in Proc /\ current \in Proc /\ time_slice[current] \in Nat
  BY <1>1 DEF Apart, Fits, User
<1>3. ChildShare \in Nat /\ left - ChildShare \in Nat
  BY <1>2 DEF ChildShare
<1>4. time_slice' = [time_slice EXCEPT ![c] = ChildShare, ![current] = left - ChildShare]
  BY DEF Fork
<1>5. need_resched' \in BOOLEAN
  BY <1>1 DEF Fork
<1> HIDE DEF left
<1>6. time_slice' \in [Proc -> Nat]
  BY <1>1, <1>3, <1>4 DEF Fits
<1>7. c \notin Queued /\ current \notin Queued
  BY <1>1 DEF Apart, Fork
<1>8. \A p \in Queued : time_slice'[p] = time_slice[p]
  BY <1>1, <1>4, <1>7 DEF Fits, Apart
<1>9. level' \in [Proc -> 0..NLevel] /\ \A p \in Queued : level'[p] = level[p]
  BY <1>1, <1>7, MlfqAssumption DEF Fits, Apart, Fork
<1>10. UNCHANGED <<queue, current>> /\ alive \subseteq alive' /\ alive' \subseteq Proc
  BY <1>1, <1>2 DEF Fork, Apart
<1> QED
  BY <1>5, <1>6, <1>8, <1>9, <1>10, SlicesOk

\* QueuesOk is inductive, and in a state that satisfies it every step is one
\* of the abstract class, or leaves what the class is about as it was.
LEMMA StepOk ==
  ASSUME QueuesOk, [MlfqNext]_vars
  PROVE  QueuesOk' /\ [Class!ClassNext]_<<current, Queued>>
<1>1. ASSUME NEW p \in User, Wake(p) PROVE QueuesOk' /\ Class!ClassNext
  <2>1. QueuesOk' /\ Queued' = Queued \cup {p}
    BY <1>1, WakeOk
  <2>2. p # current /\ UNCHANGED current
    BY <1>1 DEF Wake
  <2> QED
    BY <2>1, <2>2 DEF Class!ClassNext, Class!Enqueue, User
<1>2. ASSUME Preempt PROVE QueuesOk' /\ Class!ClassNext
  <2>1. Switch({current}) /\ need_resched' = FALSE /\ alive' = alive
    BY <1>2 DEF Preempt
  <2> QED
    BY <2>1, SwitchOk DEF Class!ClassNext
<1>3. ASSUME Block \/ Exit PROVE QueuesOk' /\ Class!ClassNext
  <2>1. Switch({}) /\ need_resched' = FALSE /\ current # idleproc
    BY <1>3 DEF Block, Exit
  <2>2. alive' = alive \/ alive' = alive \ {current}
    BY <1>3 DEF Block, Exit
  <2> QED
    BY <2>1, <2>2, SwitchOk DEF Class!ClassNext
<1>4. ASSUME Yield PROVE QueuesOk' /\ UNCHANGED <<current, Queued>>
  <2>1. Fits(queue, level, time_slice) /\ Apart
    BY FitsIsOk
  <2> QED
    BY <1>4, <2>1, SlicesOk DEF Yield, Fits, Apart
<1>5. ASSUME UNCHANGED vars PROVE QueuesOk' /\ UNCHANGED <<current, Queued>>
  <2>1. Fits(queue, level, time_slice) /\ Apart /\ need_resched \in BOOLEAN
    BY FitsIsOk
  <2> QED
    BY <1>5, <2>1, SlicesOk DEF vars, Fits, Apart
<1> QED
  BY <1>1, <1>2, <1>3, <1>4, <1>5, ProcTickOk, ForkOk DEF MlfqNext

\* RR_dequeue's assertion that a process is linked into the queue proc->rq
\* names, do_fork's that no slice goes below zero, and the slice of each queue
\* as an upper bound: for any number of processes and of queues.
THEOREM QueuesSafe == MlfqSpec => []QueuesOk
<1> QED
  BY InitOk, StepOk, PTL DEF MlfqSpec

\* schedule() over sched_MLFQ.c loses no process that wakeup_proc enqueued,
\* runs none that is not ready, and goes to idleproc only when none is.
THEOREM MlfqIsAClass == MlfqSpec => ImplementsClass
<1>1. MlfqInit => Class!ClassInit
  <2>1. ASSUME MlfqInit PROVE \A i \in Level : Members(queue[i]) = {}
    BY <2>1 DEF MlfqInit, Members
  <2> QED
    BY <2>1 DEF MlfqInit, Class!ClassInit, Queued
<1> QED
  BY <1>1, InitOk, StepOk, PTL DEF MlfqSpec, ImplementsClass, Class!ClassSpec

=============================================================================
