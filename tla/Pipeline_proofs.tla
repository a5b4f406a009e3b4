-------------------------- MODULE Pipeline_proofs ---------------------------
(***************************************************************************)
(* What the steps of a queue do to its entries: Append and Tail to a       *)
(* sequence, and taking, finishing, adding and dropping an entry to the    *)
(* line of Pipeline; and counting up to a number by the least one that     *)
(* fails, for what a list is after each of its elements.  The proofs of    *)
(* this project cite these lemmas.                                         *)
(***************************************************************************)
EXTENDS Pipeline, SequenceTheorems, WellFoundedInduction, TLAPS

\* A set of numbers has a least one.
LEMMA LeastNumber ==
  ASSUME NEW T \in SUBSET Nat, T # {}
  PROVE  \E x \in T : \A y \in T : ~(y < x)
<1>1. \E x \in T : \A y \in T : ~(<<y, x>> \in OpToRel(<, Nat))
  BY NatLessThanWellFounded, WFMin
<1>2. QED
  BY <1>1 DEF OpToRel

\* Induction along 1..n, for a set of numbers in place of a predicate.
LEMMA CountUp ==
  ASSUME NEW n \in Nat, NEW T, 0 \in T, \A i \in 1..n : i - 1 \in T => i \in T
  PROVE  0..n \subseteq T
<1> SUFFICES ASSUME (0..n) \ T # {} PROVE FALSE
  OBVIOUS
<1>1. PICK x \in (0..n) \ T : \A y \in (0..n) \ T : ~(y < x)
  <2>1. (0..n) \ T \in SUBSET Nat
    OBVIOUS
  <2>2. QED
    BY <2>1, LeastNumber
<1>2. x \in 1..n /\ x - 1 \in 0..n /\ x - 1 < x
  OBVIOUS
<1>3. x - 1 \in T
  BY <1>1, <1>2
<1>4. QED
  BY <1>2, <1>3

LEMMA ElementOf ==
  ASSUME NEW S, NEW s \in Seq(S)
  PROVE  /\ ToSet(s) \subseteq S
         /\ \A x : x \in ToSet(s) <=> \E i \in 1..Len(s) : x = s[i]
         /\ s = <<>> <=> Len(s) = 0
         /\ Len(s) \in Nat /\ DOMAIN s = 1..Len(s)
         /\ \A i \in 1..Len(s) : s[i] \in S /\ s[i] \in ToSet(s)
BY DEF ToSet

LEMMA EmptyQueue == ToSet(<<>>) = {}
BY DEF ToSet

LEMMA AppendQueue ==
  ASSUME NEW S, NEW s \in Seq(S), NEW x \in S
  PROVE  /\ Append(s, x) \in Seq(S) /\ Len(Append(s, x)) = Len(s) + 1
         /\ ToSet(Append(s, x)) = ToSet(s) \cup {x}
<1>1. /\ Append(s, x) \in Seq(S) /\ Len(Append(s, x)) = Len(s) + 1
      /\ \A i \in 1..Len(s) : Append(s, x)[i] = s[i]
      /\ Append(s, x)[Len(s) + 1] = x
  OBVIOUS
<1>2. QED
  BY <1>1 DEF ToSet

LEMMA TailQueue ==
  ASSUME NEW S, NEW s \in Seq(S), s # <<>>
  PROVE  /\ Head(s) \in S /\ Head(s) = s[1] /\ Head(s) \in ToSet(s)
         /\ Tail(s) \in Seq(S) /\ Len(Tail(s)) = Len(s) - 1 /\ Len(s) > 0
         /\ \A i \in 1..Len(Tail(s)) : Tail(s)[i] = s[i + 1]
         /\ ToSet(s) = {Head(s)} \cup ToSet(Tail(s))
<1>1. /\ Head(s) \in S /\ Head(s) = s[1]
      /\ Tail(s) \in Seq(S) /\ Len(Tail(s)) = Len(s) - 1 /\ Len(s) > 0
      /\ \A i \in 1..Len(Tail(s)) : Tail(s)[i] = s[i + 1]
  OBVIOUS
<1>2. ToSet(s) = {Head(s)} \cup ToSet(Tail(s))
  <2>1. \A x : x \in ToSet(s) <=> \E i \in 1..Len(s) : x = s[i]
    BY DEF ToSet
  <2>2. \A x : x \in ToSet(Tail(s)) <=> \E i \in 1..Len(Tail(s)) : x = s[i + 1]
    <3>1. \A x : x \in ToSet(Tail(s)) <=> \E i \in 1..Len(Tail(s)) : x = Tail(s)[i]
      BY <1>1, ElementOf
    <3>2. QED
      BY <1>1, <3>1
  <2>3. ASSUME NEW x, x \in ToSet(s) PROVE x = Head(s) \/ x \in ToSet(Tail(s))
    <3>1. PICK i \in 1..Len(s) : x = s[i]
      BY <2>1, <2>3
    <3>2. CASE i = 1
      BY <1>1, <3>1, <3>2
    <3>3. CASE i # 1
      <4>1. i - 1 \in 1..Len(Tail(s)) /\ (i - 1) + 1 = i
        BY <1>1, <3>3
      <4>2. QED
        BY <2>2, <3>1, <4>1
    <3>4. QED
      BY <3>2, <3>3
  <2>4. ASSUME NEW x, x \in ToSet(Tail(s)) PROVE x \in ToSet(s)
    <3>1. PICK i \in 1..Len(Tail(s)) : x = s[i + 1]
      BY <2>2, <2>4
    <3>2. i + 1 \in 1..Len(s)
      BY <1>1
    <3>3. QED
      BY <2>1, <3>1, <3>2
  <2>5. Head(s) \in ToSet(s)
    BY <1>1, <2>1
  <2>6. QED
    BY <2>3, <2>4, <2>5
<1>3. Head(s) \in ToSet(s)
  BY <1>2
<1>4. QED
  BY <1>1, <1>2, <1>3

-----------------------------------------------------------------------------
(* The line.                                                               *)

LEMMA LineShape ==
  ASSUME NEW S, 0 \notin S, NEW done \in Seq(S), NEW hand \in S \cup {0},
         NEW queue \in Seq(S)
  PROVE  LET k == IF hand = 0 THEN Len(done) ELSE Len(done) + 1
             l == Line(done, hand, queue)
         IN  /\ l \in Seq(S) /\ Len(l) = k + Len(queue)
             /\ k \in Nat /\ Len(l) \in Nat /\ DOMAIN l = 1..Len(l)
             /\ \A i \in 1..Len(done) : l[i] = done[i]
             /\ hand # 0 => l[k] = hand
             /\ \A i \in 1..Len(queue) : l[k + i] = queue[i]
<1> DEFINE h == IF hand = 0 THEN <<>> ELSE <<hand>>
           k == IF hand = 0 THEN Len(done) ELSE Len(done) + 1
           l == Line(done, hand, queue)
<1>1. h \in Seq(S) /\ Len(h) = (IF hand = 0 THEN 0 ELSE 1) /\ (hand # 0 => h[1] = hand)
  OBVIOUS
<1> HIDE DEF h
<1>2. /\ done \o h \in Seq(S) /\ Len(done \o h) = Len(done) + Len(h)
      /\ \A i \in 1..(Len(done) + Len(h)) :
           (done \o h)[i] = IF i <= Len(done) THEN done[i] ELSE h[i - Len(done)]
  BY <1>1, ConcatProperties
<1>3. l = (done \o h) \o queue
  BY DEF Line, h
<1>4. /\ l \in Seq(S) /\ Len(l) = Len(done \o h) + Len(queue)
      /\ \A i \in 1..(Len(done \o h) + Len(queue)) :
           l[i] = IF i <= Len(done \o h) THEN (done \o h)[i] ELSE queue[i - Len(done \o h)]
  BY <1>2, <1>3, ConcatProperties
<1> HIDE DEF l
<1>5. Len(done \o h) = k /\ k \in Nat /\ Len(done) \in Nat /\ Len(queue) \in Nat
  BY <1>1, <1>2
<1>6. \A i \in 1..Len(done) : l[i] = done[i]
  BY <1>1, <1>2, <1>4, <1>5, SMTT(30)
<1>7. ASSUME hand # 0 PROVE l[k] = hand
  BY <1>1, <1>2, <1>4, <1>5, <1>7
<1>8. ASSUME NEW i \in 1..Len(queue) PROVE l[k + i] = queue[i]
  <2>1. k + i \in 1..(k + Len(queue)) /\ ~(k + i <= k) /\ (k + i) - k = i
    BY <1>5
  <2>2. QED
    BY <1>4, <1>5, <2>1
<1>9. l \in Seq(S) /\ Len(l) = k + Len(queue) /\ k \in Nat
  BY <1>4, <1>5
<1>10. Len(l) \in Nat /\ DOMAIN l = 1..Len(l)
  BY <1>9
<1>11. QED
  BY <1>6, <1>7, <1>8, <1>9, <1>10 DEF l

\* Taking the oldest entry of the queue, and finishing the one in hand, move the
\* marks between the parts of the line and leave the line.
LEMMA LineTake ==
  ASSUME NEW S, 0 \notin S, NEW done \in Seq(S), NEW queue \in Seq(S), queue # <<>>
  PROVE  Line(done, Head(queue), Tail(queue)) = Line(done, 0, queue)
<1> DEFINE h == Head(queue)
           rest == Tail(queue)
           l == Line(done, 0, queue)
           m == Line(done, h, rest)
<1>1. /\ h \in S /\ h # 0 /\ h = queue[1]
      /\ rest \in Seq(S) /\ Len(rest) = Len(queue) - 1 /\ Len(queue) > 0
      /\ \A i \in 1..Len(rest) : rest[i] = queue[i + 1]
  BY TailQueue
<1> HIDE DEF h, rest
<1>2. /\ l \in Seq(S) /\ Len(l) = Len(done) + Len(queue)
      /\ \A i \in 1..Len(done) : l[i] = done[i]
      /\ \A i \in 1..Len(queue) : l[Len(done) + i] = queue[i]
  BY LineShape
<1>3. /\ m \in Seq(S) /\ Len(m) = Len(done) + 1 + Len(rest)
      /\ \A i \in 1..Len(done) : m[i] = done[i]
      /\ m[Len(done) + 1] = h
      /\ \A i \in 1..Len(rest) : m[Len(done) + 1 + i] = rest[i]
  <2>1. h \in S /\ h # 0 /\ rest \in Seq(S)
    BY <1>1
  <2>2. QED
    BY <2>1, LineShape
<1>4. Len(done) \in Nat /\ Len(queue) \in Nat
  OBVIOUS
<1> HIDE DEF l, m
<1>5. ASSUME NEW i \in 1..Len(l) PROVE m[i] = l[i]
  <2>0. i \in Int /\ i \in 1..(Len(done) + Len(queue))
    BY <1>2, <1>4
  <2>1. CASE i <= Len(done)
    <3>1. i \in 1..Len(done)
      BY <1>4, <2>0, <2>1
    <3>2. QED
      BY <1>2, <1>3, <3>1
  <2>2. CASE i = Len(done) + 1
    <3>1. l[i] = queue[1]
      BY <1>1, <1>2, <2>2
    <3>2. QED
      BY <1>1, <1>3, <2>2, <3>1
  <2>3. CASE i > Len(done) + 1
    <3> DEFINE j == i - Len(done) - 1
    <3>1. /\ j \in 1..Len(rest) /\ i = Len(done) + 1 + j
          /\ j + 1 \in 1..Len(queue) /\ i = Len(done) + (j + 1)
      BY <1>1, <1>2, <1>4, <2>3
    <3> HIDE DEF j
    <3>2. l[i] = queue[j + 1]
      BY <1>2, <3>1
    <3>3. m[i] = rest[j]
      BY <1>3, <3>1
    <3>4. QED
      BY <1>1, <3>1, <3>2, <3>3
  <2>4. QED
    BY <1>4, <2>0, <2>1, <2>2, <2>3
<1>6. Len(m) = Len(l)
  BY <1>1, <1>2, <1>3, <1>4
<1>7. m = l
  BY <1>2, <1>3, <1>5, <1>6, SeqEqual
<1>8. QED
  BY <1>7 DEF l, m, h, rest

LEMMA LineDone ==
  ASSUME NEW S, 0 \notin S, NEW done \in Seq(S), NEW hand \in S, NEW queue \in Seq(S)
  PROVE  Line(Append(done, hand), 0, queue) = Line(done, hand, queue)
<1>1. hand # 0 /\ <<hand>> \in Seq(S)
  OBVIOUS
<1>2. Append(done, hand) = done \o <<hand>> /\ Append(done, hand) \in Seq(S)
  OBVIOUS
<1>3. (done \o <<hand>>) \o <<>> = done \o <<hand>>
  BY <1>2, ConcatEmptySeq
<1>4. QED
  BY <1>1, <1>2, <1>3 DEF Line

LEMMA LinePut ==
  ASSUME NEW S, 0 \notin S, NEW done \in Seq(S), NEW hand \in S \cup {0},
         NEW queue \in Seq(S), NEW x \in S
  PROVE  Line(done, hand, Append(queue, x)) = Append(Line(done, hand, queue), x)
<1> DEFINE h == IF hand = 0 THEN <<>> ELSE <<hand>>
<1>1. h \in Seq(S)
  OBVIOUS
<1> HIDE DEF h
<1>2. done \o h \in Seq(S) /\ <<x>> \in Seq(S) /\ (done \o h) \o queue \in Seq(S)
  BY <1>1, ConcatProperties
<1>3. Append(queue, x) = queue \o <<x>>
  OBVIOUS
<1>4. (done \o h) \o (queue \o <<x>>) = ((done \o h) \o queue) \o <<x>>
  BY <1>2, ConcatAssociative
<1>5. ((done \o h) \o queue) \o <<x>> = Append((done \o h) \o queue, x)
  BY <1>2, AppendIsConcat
<1>6. QED
  BY <1>3, <1>4, <1>5 DEF Line, h

-----------------------------------------------------------------------------
(* An entry leaves the line from its middle: m is l without its k-th.      *)

Without(l, m, k) ==
  /\ k \in 1..Len(l) /\ Len(m) = Len(l) - 1
  /\ \A i \in 1..Len(m) : m[i] = IF i < k THEN l[i] ELSE l[i + 1]

LEMMA LineDrop ==
  ASSUME NEW S, 0 \notin S, NEW done \in Seq(S), NEW hand \in S \cup {0},
         NEW queue \in Seq(S), queue # <<>>
  PROVE  LET l == Line(done, hand, queue)
             m == Line(done, hand, Tail(queue))
         IN  \E k \in 1..Len(l) : Without(l, m, k) /\ l[k] = Head(queue)
<1> DEFINE k == IF hand = 0 THEN Len(done) ELSE Len(done) + 1
           rest == Tail(queue)
           l == Line(done, hand, queue)
           m == Line(done, hand, rest)
<1>1. /\ Head(queue) = queue[1]
      /\ rest \in Seq(S) /\ Len(rest) = Len(queue) - 1 /\ Len(queue) > 0
      /\ \A i \in 1..Len(rest) : rest[i] = queue[i + 1]
  BY TailQueue
<1> HIDE DEF rest
<1>2. /\ Len(l) = k + Len(queue) /\ k \in Nat
      /\ \A i \in 1..Len(done) : l[i] = done[i]
      /\ hand # 0 => l[k] = hand
      /\ \A i \in 1..Len(queue) : l[k + i] = queue[i]
  BY LineShape
<1>3. /\ Len(m) = k + Len(rest)
      /\ \A i \in 1..Len(done) : m[i] = done[i]
      /\ hand # 0 => m[k] = hand
      /\ \A i \in 1..Len(rest) : m[k + i] = rest[i]
  <2>1. rest \in Seq(S)
    BY <1>1
  <2>2. QED
    BY <2>1, LineShape
<1>4. Len(done) \in Nat /\ Len(queue) \in Nat /\ Len(rest) \in Nat
  BY <1>1
<1> HIDE DEF l, m
<1>5. ASSUME NEW i \in 1..Len(m) PROVE m[i] = IF i < k + 1 THEN l[i] ELSE l[i + 1]
  <2>0. i \in Int
    BY <1>2, <1>3, <1>4
  <2>1. CASE i <= k
    <3>1. i \in 1..Len(done) \/ (hand # 0 /\ i = k)
      BY <1>4, <2>1
    <3>2. m[i] = l[i]
      BY <1>2, <1>3, <3>1
    <3>3. QED
      BY <1>2, <2>1, <3>2
  <2>2. CASE i > k
    <3> DEFINE j == i - k
    <3>1. /\ j \in 1..Len(rest) /\ i = k + j
          /\ j + 1 \in 1..Len(queue) /\ i + 1 = k + (j + 1) /\ ~(i < k + 1)
      BY <1>1, <1>2, <1>3, <1>4, <2>2
    <3> HIDE DEF j, k
    <3>2. l[i + 1] = queue[j + 1]
      BY <1>2, <3>1
    <3>3. m[i] = rest[j]
      BY <1>3, <3>1
    <3>4. QED
      BY <1>1, <3>1, <3>2, <3>3
  <2>3. QED
    BY <1>2, <2>0, <2>1, <2>2
<1>6. k + 1 \in 1..Len(l) /\ Len(m) = Len(l) - 1
  BY <1>1, <1>2, <1>3, <1>4
<1>7. l[k + 1] = Head(queue)
  <2>1. 1 \in 1..Len(queue)
    BY <1>1, <1>4
  <2>2. QED
    BY <1>1, <1>2, <2>1
<1>8. QED
  BY <1>5, <1>6, <1>7 DEF Without, l, m, rest

LEMMA LineGiveUp ==
  ASSUME NEW S, 0 \notin S, NEW done \in Seq(S), NEW hand \in S, NEW queue \in Seq(S)
  PROVE  LET l == Line(done, hand, queue)
             m == Line(done, 0, queue)
         IN  \E k \in 1..Len(l) : Without(l, m, k) /\ l[k] = hand
<1> DEFINE k == Len(done) + 1
           l == Line(done, hand, queue)
           m == Line(done, 0, queue)
<1>1. hand # 0 /\ Len(done) \in Nat /\ Len(queue) \in Nat
  OBVIOUS
<1>2. /\ Len(l) = k + Len(queue) /\ k \in Nat
      /\ \A i \in 1..Len(done) : l[i] = done[i]
      /\ l[k] = hand
      /\ \A i \in 1..Len(queue) : l[k + i] = queue[i]
  BY <1>1, LineShape
<1>3. /\ Len(m) = Len(done) + Len(queue)
      /\ \A i \in 1..Len(done) : m[i] = done[i]
      /\ \A i \in 1..Len(queue) : m[Len(done) + i] = queue[i]
  BY LineShape
<1> HIDE DEF l, m
<1>4. ASSUME NEW i \in 1..Len(m) PROVE m[i] = IF i < k THEN l[i] ELSE l[i + 1]
  <2>1. CASE i <= Len(done)
    BY <1>1, <1>2, <1>3, <2>1
  <2>2. CASE i > Len(done)
    <3>1. PICK j \in 1..Len(queue) : i = Len(done) + j
      <4>1. i - Len(done) \in 1..Len(queue) /\ i = Len(done) + (i - Len(done))
        BY <1>1, <1>3, <2>2
      <4>2. QED
        BY <4>1
    <3>2. i + 1 = k + j
      BY <1>1, <3>1
    <3>3. m[i] = queue[j] /\ l[i + 1] = queue[j]
      BY <1>2, <1>3, <3>1, <3>2
    <3>4. QED
      BY <1>1, <2>2, <3>3
  <2>3. QED
    BY <1>1, <2>1, <2>2
<1>5. k \in 1..Len(l) /\ Len(m) = Len(l) - 1
  BY <1>1, <1>2, <1>3
<1>6. QED
  BY <1>2, <1>4, <1>5 DEF Without, l, m

-----------------------------------------------------------------------------
(* What the line keeps.                                                    *)

LEMMA PutKeeps ==
  ASSUME NEW S, NEW l \in Seq(S), NEW x \in S, S \subseteq Int
  PROVE  /\ Ascending(l) /\ (\A y \in ToSet(l) : y < x) => Ascending(Append(l, x))
         /\ IsInjective(l) /\ x \notin ToSet(l) => IsInjective(Append(l, x))
<1>1. /\ Append(l, x) \in Seq(S) /\ Len(Append(l, x)) = Len(l) + 1
      /\ \A i \in 1..Len(l) : Append(l, x)[i] = l[i]
      /\ Append(l, x)[Len(l) + 1] = x
      /\ DOMAIN l = 1..Len(l) /\ DOMAIN Append(l, x) = 1..(Len(l) + 1)
      /\ Len(l) \in Nat
  OBVIOUS
<1>2. \A i \in 1..Len(l) : l[i] \in ToSet(l) /\ l[i] \in S
  BY DEF ToSet
<1>3. QED
  BY <1>1, <1>2, SMTT(30) DEF Ascending, IsInjective

LEMMA AppendIsInjective ==
  ASSUME NEW S, NEW l \in Seq(S), NEW x \in S, IsInjective(l), x \notin ToSet(l)
  PROVE  IsInjective(Append(l, x))
<1>1. /\ \A i \in 1..Len(l) : Append(l, x)[i] = l[i]
      /\ Append(l, x)[Len(l) + 1] = x
      /\ DOMAIN l = 1..Len(l) /\ DOMAIN Append(l, x) = 1..(Len(l) + 1)
      /\ Len(l) \in Nat
  OBVIOUS
<1>2. \A i \in 1..Len(l) : l[i] \in ToSet(l)
  BY ElementOf
<1>3. QED
  BY <1>1, <1>2 DEF IsInjective

LEMMA WithoutKeeps ==
  ASSUME NEW S, NEW l \in Seq(S), NEW m \in Seq(S), NEW k \in 1..Len(l),
         Without(l, m, k), S \subseteq Int
  PROVE  /\ Ascending(l) => Ascending(m)
         /\ IsInjective(l) => IsInjective(m) /\ ToSet(m) = ToSet(l) \ {l[k]}
<1>1. /\ DOMAIN l = 1..Len(l) /\ DOMAIN m = 1..Len(m) /\ Len(m) = Len(l) - 1
      /\ Len(l) \in Nat
      /\ \A i \in 1..Len(m) : m[i] = IF i < k THEN l[i] ELSE l[i + 1]
  BY DEF Without
<1>2. ASSUME Ascending(l) PROVE Ascending(m)
  <2> SUFFICES ASSUME NEW i \in 1..Len(m), NEW j \in 1..Len(m), i < j
               PROVE  m[i] < m[j]
    BY <1>1 DEF Ascending
  <2> DEFINE f(n) == IF n < k THEN n ELSE n + 1
  <2>1. /\ f(i) \in 1..Len(l) /\ f(j) \in 1..Len(l) /\ f(i) < f(j)
        /\ m[i] = l[f(i)] /\ m[j] = l[f(j)]
    BY <1>1
  <2> HIDE DEF f
  <2>2. QED
    BY <1>1, <1>2, <2>1 DEF Ascending
<1>3. ASSUME IsInjective(l) PROVE IsInjective(m)
  <2> SUFFICES ASSUME NEW i \in 1..Len(m), NEW j \in 1..Len(m), m[i] = m[j]
               PROVE  i = j
    BY <1>1 DEF IsInjective
  <2> DEFINE f(n) == IF n < k THEN n ELSE n + 1
  <2>1. f(i) \in 1..Len(l) /\ f(j) \in 1..Len(l) /\ m[i] = l[f(i)] /\ m[j] = l[f(j)]
    BY <1>1
  <2>2. f(i) = f(j)
    BY <1>1, <1>3, <2>1 DEF IsInjective
  <2>3. QED
    BY <2>2
<1>4. ASSUME IsInjective(l) PROVE ToSet(m) = ToSet(l) \ {l[k]}
  <2>1. \A x : x \in ToSet(l) <=> \E i \in 1..Len(l) : x = l[i]
    BY ElementOf
  <2>2. \A x : x \in ToSet(m) <=> \E i \in 1..Len(m) : x = m[i]
    BY ElementOf
  <2>3. ASSUME NEW i \in 1..Len(m) PROVE m[i] \in ToSet(l) \ {l[k]}
    <3>1. CASE i < k
      BY <1>1, <1>4, <2>1, <3>1, SMTT(30) DEF IsInjective
    <3>2. CASE ~(i < k)
      <4>1. i + 1 \in 1..Len(l) /\ i + 1 # k /\ m[i] = l[i + 1]
        BY <1>1, <3>2
      <4>2. QED
        BY <1>1, <1>4, <2>1, <4>1 DEF IsInjective
    <3>3. QED
      BY <3>1, <3>2
  <2>4. ASSUME NEW i \in 1..Len(l), i # k PROVE l[i] \in ToSet(m)
    <3>1. CASE i < k
      BY <1>1, <2>2, <3>1
    <3>2. CASE i > k
      <4>1. i - 1 \in 1..Len(m) /\ ~(i - 1 < k) /\ (i - 1) + 1 = i
        BY <1>1, <3>2
      <4>2. QED
        BY <1>1, <2>2, <4>1
    <3>3. QED
      BY <2>4, <3>1, <3>2
  <2>5. QED
    BY <2>1, <2>2, <2>3, <2>4
<1>5. QED
  BY <1>2, <1>3, <1>4

LEMMA AscendingIsInjective ==
  ASSUME NEW S, NEW l \in Seq(S), S \subseteq Int, Ascending(l)
  PROVE  IsInjective(l)
<1>1. DOMAIN l = 1..Len(l) /\ Len(l) \in Nat /\ \A i \in 1..Len(l) : l[i] \in Int
  BY ElementOf
<1>2. SUFFICES ASSUME NEW i \in 1..Len(l), NEW j \in 1..Len(l), l[i] = l[j] PROVE i = j
  BY <1>1 DEF IsInjective
<1>3. ~(i < j) /\ ~(j < i)
  BY <1>1, <1>2 DEF Ascending
<1>4. QED
  BY <1>1, <1>3

-----------------------------------------------------------------------------
(* The lemmas in one, for the steps of a goroutine.                        *)

\* m is l without one occurrence of x.
Drops(l, m, x) == \E k \in 1..Len(l) : Without(l, m, k) /\ l[k] = x

LEMMA LineSteps ==
  ASSUME NEW S, 0 \notin S, NEW done \in Seq(S), NEW hand \in S \cup {0},
         NEW queue \in Seq(S)
  PROVE  /\ Line(done, hand, queue) \in Seq(S)
         /\ \A x \in S : Line(done, hand, Append(queue, x)) = Append(Line(done, hand, queue), x)
         /\ hand # 0 => /\ Line(Append(done, hand), 0, queue) = Line(done, hand, queue)
                        /\ Drops(Line(done, hand, queue), Line(done, 0, queue), hand)
         /\ queue # <<>> => Drops(Line(done, hand, queue), Line(done, hand, Tail(queue)), Head(queue))
         /\ queue # <<>> => Line(done, Head(queue), Tail(queue)) = Line(done, 0, queue)
<1>1. Line(done, hand, queue) \in Seq(S)
  BY LineShape
<1>2. ASSUME NEW x \in S
      PROVE  Line(done, hand, Append(queue, x)) = Append(Line(done, hand, queue), x)
  BY LinePut, SMTT(30)
<1>3. ASSUME hand # 0
      PROVE  /\ Line(Append(done, hand), 0, queue) = Line(done, hand, queue)
             /\ Drops(Line(done, hand, queue), Line(done, 0, queue), hand)
  <2>1. hand \in S
    BY <1>3
  <2>2. Line(Append(done, hand), 0, queue) = Line(done, hand, queue)
    BY <2>1, LineDone
  <2>3. Drops(Line(done, hand, queue), Line(done, 0, queue), hand)
    BY <2>1, LineGiveUp DEF Drops
  <2>4. QED
    BY <2>2, <2>3
<1>4. ASSUME queue # <<>>
      PROVE  /\ Drops(Line(done, hand, queue), Line(done, hand, Tail(queue)), Head(queue))
             /\ Line(done, Head(queue), Tail(queue)) = Line(done, 0, queue)
  <2>1. Drops(Line(done, hand, queue), Line(done, hand, Tail(queue)), Head(queue))
    <3> DEFINE l == Line(done, hand, queue)
               m == Line(done, hand, Tail(queue))
    <3>1. PICK k \in 1..Len(l) : Without(l, m, k) /\ l[k] = Head(queue)
      BY <1>4, LineDrop, ZenonT(30)
    <3>2. QED
      BY <3>1 DEF Drops
  <2>2. Line(done, Head(queue), Tail(queue)) = Line(done, 0, queue)
    BY <1>4, LineTake
  <2>3. QED
    BY <2>1, <2>2
<1>5. QED
  BY <1>1, <1>2, <1>3, <1>4

LEMMA QueueSteps ==
  ASSUME NEW S, S \subseteq Int, NEW s \in Seq(S)
  PROVE  /\ ToSet(s) \subseteq S /\ Len(s) \in Nat
         /\ \A x \in S :
              /\ Append(s, x) \in Seq(S) /\ Len(Append(s, x)) = Len(s) + 1
              /\ ToSet(Append(s, x)) = ToSet(s) \cup {x}
              /\ Ascending(s) /\ (\A y \in ToSet(s) : y < x) => Ascending(Append(s, x))
              /\ IsInjective(s) /\ x \notin ToSet(s) => IsInjective(Append(s, x))
         /\ Ascending(s) => IsInjective(s)
         /\ s # <<>> => /\ Head(s) \in S /\ Head(s) \in ToSet(s)
                        /\ Tail(s) \in Seq(S) /\ Len(Tail(s)) = Len(s) - 1 /\ Len(s) > 0
                        /\ ToSet(s) = {Head(s)} \cup ToSet(Tail(s))
                        /\ Ascending(s) => Ascending(Tail(s)) /\ \A y \in ToSet(Tail(s)) : Head(s) < y
<1>1. ToSet(s) \subseteq S /\ Len(s) \in Nat
  BY ElementOf
<1>2. ASSUME NEW x \in S
      PROVE  /\ Append(s, x) \in Seq(S) /\ Len(Append(s, x)) = Len(s) + 1
             /\ ToSet(Append(s, x)) = ToSet(s) \cup {x}
             /\ Ascending(s) /\ (\A y \in ToSet(s) : y < x) => Ascending(Append(s, x))
             /\ IsInjective(s) /\ x \notin ToSet(s) => IsInjective(Append(s, x))
  <2>1. /\ Append(s, x) \in Seq(S) /\ Len(Append(s, x)) = Len(s) + 1
        /\ ToSet(Append(s, x)) = ToSet(s) \cup {x}
    BY AppendQueue
  <2>2. /\ Ascending(s) /\ (\A y \in ToSet(s) : y < x) => Ascending(Append(s, x))
        /\ IsInjective(s) /\ x \notin ToSet(s) => IsInjective(Append(s, x))
    BY PutKeeps
  <2>3. QED
    BY <2>1, <2>2
<1>3. Ascending(s) => IsInjective(s)
  BY AscendingIsInjective
<1>4. ASSUME s # <<>>
      PROVE  /\ Head(s) \in S /\ Head(s) \in ToSet(s)
             /\ Tail(s) \in Seq(S) /\ Len(Tail(s)) = Len(s) - 1 /\ Len(s) > 0
             /\ ToSet(s) = {Head(s)} \cup ToSet(Tail(s))
             /\ Ascending(s) => Ascending(Tail(s)) /\ \A y \in ToSet(Tail(s)) : Head(s) < y
  <2> DEFINE t == Tail(s)
  <2>1. /\ Head(s) \in S /\ Head(s) = s[1] /\ Head(s) \in ToSet(s)
        /\ t \in Seq(S) /\ Len(t) = Len(s) - 1 /\ Len(s) > 0
        /\ \A i \in 1..Len(t) : t[i] = s[i + 1]
        /\ ToSet(s) = {Head(s)} \cup ToSet(t)
    BY <1>4, TailQueue
  <2> HIDE DEF t
  <2>2. /\ \A x : x \in ToSet(t) <=> \E i \in 1..Len(t) : x = t[i]
        /\ DOMAIN t = 1..Len(t) /\ DOMAIN s = 1..Len(s)
    BY <2>1, ElementOf
  <2>3. ASSUME Ascending(s) PROVE Ascending(t) /\ \A y \in ToSet(t) : Head(s) < y
    <3>1. \A i, j \in 1..Len(s) : i < j => s[i] < s[j]
      BY <2>2, <2>3 DEF Ascending
    <3>2. \A i \in 1..Len(t) : i + 1 \in 1..Len(s) /\ 1 < i + 1 /\ 1 \in 1..Len(s)
      BY <1>1, <2>1
    <3>3. ASSUME NEW i \in 1..Len(t), NEW j \in 1..Len(t), i < j PROVE t[i] < t[j]
      <4>1. i + 1 < j + 1
        BY <3>3
      <4>2. QED
        BY <2>1, <3>1, <3>2, <4>1
    <3>4. Ascending(t)
      BY <2>2, <3>3 DEF Ascending
    <3>5. \A i \in 1..Len(t) : Head(s) < t[i]
      BY <2>1, <3>1, <3>2
    <3>6. QED
      BY <2>2, <3>4, <3>5
  <2>4. QED
    BY <2>1, <2>3 DEF t
<1>5. QED
  BY <1>1, <1>2, <1>3, <1>4

LEMMA DropKeeps ==
  ASSUME NEW S, S \subseteq Int, NEW l \in Seq(S), NEW m \in Seq(S), NEW x, Drops(l, m, x)
  PROVE  /\ x \in ToSet(l) /\ Len(m) = Len(l) - 1
         /\ Ascending(l) => Ascending(m)
         /\ IsInjective(l) => IsInjective(m) /\ ToSet(m) = ToSet(l) \ {x}
<1>1. PICK k \in 1..Len(l) : Without(l, m, k) /\ l[k] = x
  BY DEF Drops
<1>2. x \in ToSet(l) /\ Len(m) = Len(l) - 1
  BY <1>1, ElementOf DEF Without
<1>3. Without(l, m, k)
  BY <1>1
<1>4. /\ Ascending(l) => Ascending(m)
      /\ IsInjective(l) => IsInjective(m) /\ ToSet(m) = ToSet(l) \ {l[k]}
  BY <1>3, WithoutKeeps, Zenon
<1>5. QED
  BY <1>1, <1>2, <1>4

-----------------------------------------------------------------------------
(* The order of another sequence.                                          *)

LEMMA PutInOrder ==
  ASSUME NEW S, NEW s \in Seq(S), NEW t \in Seq(S), NEW x \in S,
         InOrderOf(s, t), ToSet(s) \subseteq ToSet(t)
  PROVE  InOrderOf(Append(s, x), Append(t, x))
<1> DEFINE u == Append(s, x)
           v == Append(t, x)
<1>1. /\ DOMAIN s = 1..Len(s) /\ DOMAIN t = 1..Len(t) /\ Len(s) \in Nat /\ Len(t) \in Nat
      /\ DOMAIN u = 1..Len(s) + 1 /\ DOMAIN v = 1..Len(t) + 1
      /\ \A i \in 1..Len(s) : u[i] = s[i]
      /\ \A i \in 1..Len(t) : v[i] = t[i]
      /\ u[Len(s) + 1] = x /\ v[Len(t) + 1] = x
  OBVIOUS
<1>2. ASSUME NEW i \in 1..Len(s) PROVE \E a \in 1..Len(t) : s[i] = t[a]
  <2>1. s[i] \in ToSet(t)
    BY ElementOf
  <2>2. QED
    BY <2>1, ElementOf
<1> HIDE DEF u, v
<1>3. SUFFICES ASSUME NEW i \in DOMAIN u, NEW j \in DOMAIN u, i < j
               PROVE  \E a, b \in DOMAIN v : a < b /\ u[i] = v[a] /\ u[j] = v[b]
  BY DEF InOrderOf, u, v
<1>4. i \in 1..Len(s)
  BY <1>1, <1>3
<1>5. CASE j \in 1..Len(s)
  <2>1. PICK a \in 1..Len(t), b \in 1..Len(t) : a < b /\ s[i] = t[a] /\ s[j] = t[b]
    BY <1>1, <1>3, <1>4, <1>5 DEF InOrderOf
  <2>2. QED
    BY <1>1, <1>4, <1>5, <2>1
<1>6. CASE j = Len(s) + 1
  <2>1. PICK a \in 1..Len(t) : s[i] = t[a]
    BY <1>2, <1>4
  <2>2. a < Len(t) + 1 /\ Len(t) + 1 \in DOMAIN v /\ a \in DOMAIN v
    BY <1>1
  <2>3. QED
    BY <1>1, <1>4, <1>6, <2>1, <2>2
<1>7. QED
  BY <1>1, <1>3, <1>5, <1>6

LEMMA DropInOrder ==
  ASSUME NEW S, NEW l \in Seq(S), NEW m \in Seq(S), NEW x, Drops(l, m, x),
         NEW t, InOrderOf(l, t)
  PROVE  InOrderOf(m, t)
<1>1. PICK k \in 1..Len(l) : Without(l, m, k)
  BY DEF Drops
<1>2. /\ DOMAIN l = 1..Len(l) /\ DOMAIN m = 1..Len(m) /\ Len(m) = Len(l) - 1
      /\ Len(l) \in Nat
      /\ \A i \in 1..Len(m) : m[i] = IF i < k THEN l[i] ELSE l[i + 1]
  BY <1>1 DEF Without
<1>3. SUFFICES ASSUME NEW i \in 1..Len(m), NEW j \in 1..Len(m), i < j
               PROVE  \E a, b \in DOMAIN t : a < b /\ m[i] = t[a] /\ m[j] = t[b]
  BY <1>2 DEF InOrderOf
<1> DEFINE f(n) == IF n < k THEN n ELSE n + 1
<1>4. /\ f(i) \in DOMAIN l /\ f(j) \in DOMAIN l /\ f(i) < f(j)
      /\ m[i] = l[f(i)] /\ m[j] = l[f(j)]
  BY <1>2, <1>3
<1> HIDE DEF f
<1>5. \E a, b \in DOMAIN t : a < b /\ l[f(i)] = t[a] /\ l[f(j)] = t[b]
  BY <1>4 DEF InOrderOf
<1>6. QED
  BY <1>4, <1>5

LEMMA InOrderIsInjective ==
  ASSUME NEW S, NEW s \in Seq(S), NEW t \in Seq(S), InOrderOf(s, t), IsInjective(t)
  PROVE  IsInjective(s)
<1>1. DOMAIN s = 1..Len(s) /\ DOMAIN t = 1..Len(t) /\ Len(s) \in Nat /\ Len(t) \in Nat
  OBVIOUS
<1>2. SUFFICES ASSUME NEW i \in 1..Len(s), NEW j \in 1..Len(s), s[i] = s[j] PROVE i = j
  BY <1>1 DEF IsInjective
<1>3. ASSUME NEW a \in 1..Len(t), NEW b \in 1..Len(t), a < b PROVE t[a] # t[b]
  BY <1>1, <1>3 DEF IsInjective
<1>4. ASSUME NEW u \in 1..Len(s), NEW v \in 1..Len(s), u < v PROVE s[u] # s[v]
  <2>1. u \in DOMAIN s /\ v \in DOMAIN s
    BY <1>1
  <2>2. \E a, b \in DOMAIN t : a < b /\ s[u] = t[a] /\ s[v] = t[b]
    BY <1>4, <2>1 DEF InOrderOf
  <2>3. QED
    BY <1>1, <1>3, <2>2
<1>5. ~(i < j) /\ ~(j < i)
  BY <1>2, <1>4
<1>6. QED
  BY <1>1, <1>5

LEMMA Appended ==
  ASSUME NEW S, NEW l \in Seq(S), NEW e \in S
  PROVE  /\ Append(l, e) \in Seq(S) /\ Len(Append(l, e)) = Len(l) + 1
         /\ Append(l, e)[Len(l) + 1] = e /\ \A a \in 1..Len(l) : Append(l, e)[a] = l[a]
OBVIOUS

\* Two lists of one length that agree everywhere are one.
LEMMA SameList ==
  ASSUME NEW S, NEW s \in Seq(S), NEW t \in Seq(S), Len(s) = Len(t),
         \A a \in 1..Len(s) : s[a] = t[a]
  PROVE  s = t
OBVIOUS

\* Recursion along 1..n: where a walk from z gets by the steps Step[1], Step[2], ...
Steps(n, V) == [1..n -> [V -> V]]
Walks(n, V, z, Step) ==
  {f \in [0..n -> V] : f[0] = z /\ \A i \in 1..n : f[i] = Step[i][f[i - 1]]}

LEMMA WalkExists ==
  ASSUME NEW n \in Nat, NEW V, NEW z \in V, NEW Step \in Steps(n, V)
  PROVE  Walks(n, V, z, Step) # {}
<1> USE DEF Steps
<1> DEFINE Good(f, m) == f[0] = z /\ \A i \in 1..m : f[i] = Step[i][f[i - 1]]
           T == {m \in 0..n : \E f \in [0..n -> V] : Good(f, m)}
<1>1. 0 \in T
  <2>1. PICK f : f = [i \in 0..n |-> z]
    OBVIOUS
  <2>2. f \in [0..n -> V] /\ f[0] = z /\ 0 \in 0..n /\ 1..0 = {}
    BY <2>1
  <2>3. QED
    BY <2>2
<1>2. ASSUME NEW m \in 1..n, m - 1 \in T PROVE m \in T
  <2>1. PICK f \in [0..n -> V] : Good(f, m - 1)
    BY <1>2
  <2>2. PICK v \in V : v = Step[m][f[m - 1]]
    <3>1. f[m - 1] \in V
      OBVIOUS
    <3>2. QED
      BY <3>1
  <2>3. PICK g : g = [f EXCEPT ![m] = v]
    OBVIOUS
  <2>4. g \in [0..n -> V] /\ g[m] = v /\ \A i \in 0..(m - 1) : g[i] = f[i]
    BY <2>3
  <2>5. \A i \in 1..m : g[i] = Step[i][g[i - 1]]
    <3>1. \A i \in 1..m : i - 1 \in 0..(m - 1) /\ i - 1 # m /\ (i # m => i \in 1..(m - 1) /\ i \in 0..(m - 1))
      OBVIOUS
    <3>2. QED
      BY <2>1, <2>2, <2>4, <3>1
  <2>6. g[0] = z
    BY <2>1, <2>4
  <2>7. QED
    BY <2>4, <2>5, <2>6
<1>3. n \in T
  <2> HIDE DEF T
  <2>1. 0..n \subseteq T
    BY <1>1, <1>2, CountUp
  <2>2. QED
    BY <2>1
<1>4. QED
  BY <1>3 DEF Walks

LEMMA Joined ==
  ASSUME NEW S, NEW s \in Seq(S), NEW t \in Seq(S)
  PROVE  /\ s \o t \in Seq(S) /\ Len(s \o t) = Len(s) + Len(t)
         /\ \A i \in 1..Len(s) : (s \o t)[i] = s[i]
         /\ \A i \in 1..Len(t) : (s \o t)[Len(s) + i] = t[i]
OBVIOUS
=============================================================================
