-------------------------- MODULE Library_proofs ----------------------------
(***************************************************************************)
(* Proofs about the libraries of the toolkit, one part each: derived       *)
(* loggers, the data of a log line, SQL queries, and queries of the log.   *)
(* They share no state.                                                    *)
(***************************************************************************)
EXTENDS SharedKvs, LogText, SqlQueries, LogQuery, Pipeline_proofs, FiniteSetTheorems

-----------------------------------------------------------------------------
(* SharedKvs: loggers that are alone share no slots with their relatives.   *)

Arrays == Seq(Seq(Int))
\* What was in the first n slots of the array, and in all slots of the others, stays.
Keeps(old, new, arr, n) ==
  \A a \in 1..Len(old) : /\ Len(new[a]) = Len(old[a])
                         /\ \A j \in 1..Len(old[a]) : a # arr \/ j <= n => new[a][j] = old[a][j]
\* A fresh array with c slots that starts with the first n of arr, and k times v.
Copied(old, new, arr, n, v, k, c) ==
  LET a == Len(old) + 1
  IN  /\ Len(new[a]) = c
      /\ \A j \in 1..n : new[a][j] = old[arr][j]
      /\ \A j \in (n + 1)..(n + k) : new[a][j] = v

LEMMA ArraysTyped ==
  ASSUME NEW arrays \in Arrays, NEW a \in 1..Len(arrays)
  PROVE  Len(arrays) \in Nat /\ arrays[a] \in Seq(Int) /\ Len(arrays[a]) \in Nat
BY DEF Arrays

\* A slice that grows has room for what it must hold; a first With is allocated
\* exactly.
LEMMA RoomsSuffice ==
  ASSUME NEW cap \in Nat, NEW need \in Nat, NEW c \in Rooms(cap, need)
  PROVE  c \in Nat /\ c >= need
<1>1. CASE kvKind = "helper"
  <2>1. PICK least \in Nat : least = (IF need > 2 * cap THEN need ELSE 2 * cap) /\ least >= need
    OBVIOUS
  <2>2. c = IF least <= 16 THEN least ELSE 2 * ((least + 1) \div 2)
    BY <1>1, <2>1 DEF Rooms, AtOnce
  <2>3. 2 * ((least + 1) \div 2) \in Nat /\ 2 * ((least + 1) \div 2) >= least
    BY <2>1
  <2>4. QED
    BY <2>1, <2>2, <2>3
<1>2. CASE kvKind # "helper"
  <2>1. c \in need..(2 * need)
    BY <1>2, Zenon DEF Rooms, Doublings
  <2>2. QED
    BY <2>1
<1>3. QED
  BY <1>1, <1>2

LEMMA FirstRoom ==
  ASSUME kvKind = "helper", NEW k \in 1..16, NEW c \in Rooms(0, k)
  PROVE  c = k
BY DEF Rooms, AtOnce

\* What goes in place fits, and a full array takes nothing.
LEMMA InPlace ==
  ASSUME NEW cap \in Nat, NEW n \in 0..cap, NEW k \in Nat \ {0}, NEW u, u = PutInPlace(cap, n, k)
  PROVE  u \in 0..k /\ n + u <= cap /\ (n = cap => u = 0)
BY DEF PutInPlace

LEMMA WrittenKeeps ==
  ASSUME NEW old \in Arrays, NEW arr, NEW n \in Nat, NEW v \in Int, NEW u \in Nat,
         NEW new, new = Written(old, arr, n, v, u)
  PROVE  new \in Arrays /\ Len(new) = Len(old) /\ Keeps(old, new, arr, n)
<1> DEFINE Filled(a) == [i \in DOMAIN old[a] |->
                           IF a = arr /\ i \in (n + 1)..(n + u) THEN v ELSE old[a][i]]
<1>1. DOMAIN old = 1..Len(old) /\ Len(old) \in Nat
  BY DEF Arrays
<1>2. new = [a \in 1..Len(old) |-> Filled(a)]
  BY <1>1 DEF Written
<1>3. ASSUME NEW a \in 1..Len(old)
      PROVE  /\ Filled(a) \in Seq(Int) /\ Len(Filled(a)) = Len(old[a])
             /\ \A j \in 1..Len(old[a]) : a # arr \/ j <= n => Filled(a)[j] = old[a][j]
  <2>1. PICK s \in Seq(Int) : s = old[a]
    BY DEF Arrays
  <2>2. PICK f : f = [i \in 1..Len(s) |-> IF a = arr /\ i \in (n + 1)..(n + u) THEN v ELSE s[i]]
    OBVIOUS
  <2>3. f = Filled(a)
    BY <2>1, <2>2
  <2>4. \A i \in 1..Len(s) : (IF a = arr /\ i \in (n + 1)..(n + u) THEN v ELSE s[i]) \in Int
    OBVIOUS
  <2>5. f \in Seq(Int) /\ Len(f) = Len(s)
    BY <2>2, <2>4
  <2>6. \A j \in 1..Len(s) : a # arr \/ j <= n => f[j] = s[j]
    BY <2>2
  <2>7. QED
    BY <2>1, <2>3, <2>5, <2>6
<1> HIDE DEF Filled
<1>4. new \in Seq(Seq(Int)) /\ Len(new) = Len(old)
  BY <1>1, <1>2, <1>3
<1>5. \A a \in 1..Len(old) : new[a] = Filled(a)
  BY <1>2
<1>6. QED
  BY <1>3, <1>4, <1>5 DEF Keeps, Arrays

LEMMA ValuesJoined ==
  ASSUME NEW s \in Seq(Int), NEW t \in Seq(Int)
  PROVE  /\ s \o t \in Seq(Int) /\ Len(s \o t) = Len(s) + Len(t)
         /\ \A j \in 1..Len(s) : (s \o t)[j] = s[j]
         /\ \A j \in (Len(s) + 1)..(Len(s) + Len(t)) : (s \o t)[j] = t[j - Len(s)]
OBVIOUS

LEMMA AppendGrows ==
  ASSUME NEW old \in Arrays, NEW arr \in 0..Len(old), NEW n \in 0..CapOf(old, arr), NEW v \in Int,
         NEW k \in Nat \ {0}, NEW u \in Nat, u # k, NEW c \in Nat, c >= n + k,
         NEW r, r = AppendTo(old, arr, n, v, k, u, c)
  PROVE  /\ r.arr = Len(old) + 1
         /\ r.arrays \in Arrays /\ Len(r.arrays) = Len(old) + 1
         /\ Keeps(old, r.arrays, arr, n) /\ Copied(old, r.arrays, arr, n, v, k, c)
<1> DEFINE vals == [i \in 1..k |-> v]
           head == IF arr = 0 THEN <<>> ELSE SubSeq(old[arr], 1, n)
           cap == CapOf(old, arr)
           copy == Fresh(head \o vals, c)
<1>1. cap \in Nat /\ n \in Nat /\ n <= cap
  BY DEF CapOf, Arrays
<1>2. head \in Seq(Int) /\ Len(head) = n /\ \A j \in 1..n : head[j] = old[arr][j]
  <2>1. CASE arr = 0
    BY <2>1, <1>1 DEF CapOf
  <2>2. CASE arr # 0
    <3>1. old[arr] \in Seq(Int) /\ n <= Len(old[arr])
      BY <2>2 DEF CapOf, Arrays
    <3>2. QED
      BY <2>2, <3>1, <1>1, SMTT(30)
  <2>3. QED
    BY <2>1, <2>2
<1>3. vals \in Seq(Int) /\ Len(vals) = k /\ \A j \in 1..k : vals[j] = v
  OBVIOUS
<1>4. PICK written : written = Written(old, arr, n, v, u)
  OBVIOUS
<1> DEFINE new == Append(written, copy)
<1>5. AppendTo(old, arr, n, v, k, u, c) = [arrays |-> new, arr |-> Len(old) + 1]
  BY <1>1, <1>4 DEF AppendTo
<1>13. written \in Arrays /\ Len(written) = Len(old) /\ Keeps(old, written, arr, n)
  BY <1>1, <1>4, WrittenKeeps
<1> HIDE DEF vals, head
<1>6. PICK whole \in Seq(Int) : whole = head \o vals
  BY <1>2, <1>3, ValuesJoined
<1>7. /\ Len(whole) = n + k
      /\ \A j \in 1..n : whole[j] = old[arr][j]
      /\ \A j \in (n + 1)..(n + k) : whole[j] = v
  <2>1. Len(whole) = n + k
    BY ValuesJoined, <1>1, <1>2, <1>3, <1>6
  <2>2. \A j \in 1..n : whole[j] = head[j]
    BY ValuesJoined, <1>1, <1>2, <1>3, <1>6
  <2>3. ASSUME NEW j \in (n + 1)..(n + k) PROVE whole[j] = v
    <3>1. whole[j] = vals[j - n]
      BY ValuesJoined, <1>1, <1>2, <1>3, <1>6
    <3>2. j - n \in 1..k
      BY <1>1
    <3>3. QED
      BY <3>1, <3>2, <1>3
  <2>4. QED
    BY <2>1, <2>2, <2>3, <1>2
<1>8. copy \in Seq(Int) /\ Len(copy) = c /\ \A j \in 1..(n + k) : copy[j] = whole[j]
  <2>1. PICK size \in Nat : size = c /\ size >= n + k
    OBVIOUS
  <2>2. copy = [i \in 1..size |-> IF i <= n + k THEN whole[i] ELSE 0]
    BY <1>6, <1>7, <2>1 DEF Fresh
  <2>3. \A i \in 1..(n + k) : whole[i] \in Int
    BY <1>7
  <2>4. \A i \in 1..size : (IF i <= n + k THEN whole[i] ELSE 0) \in Int
    BY <2>3, <1>1
  <2>5. copy \in [1..size -> Int]
    BY <2>2, <2>4
  <2>6. copy \in Seq(Int) /\ Len(copy) = size
    BY <2>5
  <2>7. \A i \in 1..(n + k) : i \in 1..size /\ i <= n + k
    BY <1>1, <2>1
  <2>8. \A i \in 1..(n + k) : copy[i] = whole[i]
    BY <2>2, <2>7
  <2>9. QED
    BY <2>1, <2>6, <2>8
<1> HIDE DEF copy, cap
<1>9. /\ new \in Arrays /\ Len(new) = Len(old) + 1 /\ new[Len(old) + 1] = copy
      /\ \A a \in 1..Len(old) : new[a] = written[a]
  BY <1>8, <1>13 DEF Arrays
<1> HIDE DEF new
<1>10. Keeps(old, new, arr, n)
  BY <1>9, <1>13 DEF Keeps
<1>11. Copied(old, new, arr, n, v, k, c)
  <2>1. \A j \in 1..n : j \in 1..(n + k)
    BY <1>1
  <2>2. \A j \in (n + 1)..(n + k) : j \in 1..(n + k)
    BY <1>1
  <2>3. \A j \in 1..n : copy[j] = old[arr][j]
    BY <2>1, <1>7, <1>8
  <2>4. \A j \in (n + 1)..(n + k) : copy[j] = v
    BY <2>2, <1>7, <1>8
  <2>5. QED
    BY <2>3, <2>4, <1>8, <1>9 DEF Copied
<1>12. QED
  BY <1>5, <1>9, <1>10, <1>11

\* The append leaves these arrays, and its slice in array to.
AppendLeaves(old, arr, n, v, k, u, c, new, to) ==
  AppendTo(old, arr, n, v, k, u, c) = [arrays |-> new, arr |-> to]

\* The arguments of an append, and what it does, whether it moves or not.
CanAppend(old, arr, n, v, k, u, c) ==
  /\ old \in Arrays /\ arr \in 0..Len(old) /\ n \in 0..CapOf(old, arr) /\ v \in Int
  /\ k \in Nat \ {0} /\ u \in 0..k /\ n + u <= CapOf(old, arr) /\ c \in Nat /\ c >= n + k

Moved(old, arr, n, v, k, u, c, new, to) ==
  /\ new \in Arrays /\ Len(new) >= Len(old) /\ Keeps(old, new, arr, n)
  /\ to \in 1..Len(new) /\ n + k <= Len(new[to])
  /\ to = arr \/ to = Len(old) + 1
  /\ u = 0 => to = Len(old) + 1 /\ Copied(old, new, arr, n, v, k, c)

LEMMA AppendMoves ==
  ASSUME NEW old, NEW arr, NEW n, NEW v, NEW k, NEW u, NEW c, NEW new, NEW to,
         CanAppend(old, arr, n, v, k, u, c), AppendLeaves(old, arr, n, v, k, u, c, new, to)
  PROVE  Moved(old, arr, n, v, k, u, c, new, to)
<1>9. /\ old \in Arrays /\ arr \in 0..Len(old) /\ n \in 0..CapOf(old, arr) /\ v \in Int
      /\ k \in Nat \ {0} /\ u \in 0..k /\ n + u <= CapOf(old, arr) /\ c \in Nat /\ c >= n + k
  BY DEF CanAppend
<1>0. CapOf(old, arr) \in Nat /\ Len(old) \in Nat /\ n \in Nat
  BY <1>9 DEF CapOf, Arrays
<1>1. CASE u = k
  <2>1. new = Written(old, arr, n, v, u) /\ to = arr
    BY <1>1 DEF AppendTo, AppendLeaves
  <2>2. new \in Arrays /\ Len(new) = Len(old) /\ Keeps(old, new, arr, n)
    BY <1>0, <1>9, <2>1, WrittenKeeps
  <2>3. arr # 0 /\ arr \in 1..Len(old) /\ CapOf(old, arr) = Len(old[arr])
    BY <1>0, <1>1, <1>9 DEF CapOf
  <2>4. Len(new[arr]) = Len(old[arr])
    BY <2>2, <2>3 DEF Keeps
  <2>5. QED
    BY <1>0, <1>1, <1>9, <2>1, <2>2, <2>3, <2>4 DEF Moved
<1>2. CASE u # k
  <2>1. PICK r : r = AppendTo(old, arr, n, v, k, u, c)
    OBVIOUS
  <2>2. r.arrays = new /\ r.arr = to
    BY <2>1 DEF AppendLeaves
  <2>3. /\ r.arr = Len(old) + 1 /\ r.arrays \in Arrays /\ Len(r.arrays) = Len(old) + 1
        /\ Keeps(old, r.arrays, arr, n) /\ Copied(old, r.arrays, arr, n, v, k, c)
    BY <1>2, <1>9, <2>1, AppendGrows
  <2>4. Len(new[to]) = c
    BY <2>2, <2>3 DEF Copied
  <2>5. QED
    BY <1>0, <1>2, <1>9, <2>2, <2>3, <2>4 DEF Moved
<1>3. QED
  BY <1>1, <1>2

Loggers == [arr : Nat, depth : Nat, alone : BOOLEAN, want : Seq(Int)]
LogCalls == [logger : Nat, arr : Nat, want : Seq(Int)]

FullIn(arrays, p) == Len(p.want) = CapOf(arrays, p.arr)
Small(arrays, p) == p.alone /\ FullIn(arrays, p)

Holds(arrays, arr, want) == \A j \in 1..Len(want) : arrays[arr][j] = want[j]

\* An array is full while few With led to it, so append moves what is derived
\* from its logger to an array of its own.
LoggerFits(arrays, kind, p) ==
  /\ p \in Loggers /\ p.arr <= Len(arrays) /\ Len(p.want) <= CapOf(arrays, p.arr)
  /\ p.depth = 0 => p.arr = 0
  /\ p.depth <= 1 /\ kind = "helper" => FullIn(arrays, p)
  /\ p.depth <= (IF kind = "helper" THEN 2 ELSE 1) => p.alone
  /\ p.alone => Holds(arrays, p.arr, p.want)

\* A logger that is alone was the first on its array: the others carry more.
FirstOnArray(p, loggers) ==
  \A i \in 1..Len(loggers) : loggers[i].arr = p.arr => Len(p.want) <= Len(loggers[i].want)

LoggersFit(arrays, kind, loggers) ==
  \A i \in 1..Len(loggers) :
    LoggerFits(arrays, kind, loggers[i]) /\ (loggers[i].alone => FirstOnArray(loggers[i], loggers))

\* The call of a Small logger has an array that no logger appends to.
CallFits(arrays, loggers, c) ==
  /\ c \in LogCalls /\ c.logger \in 1..Len(loggers) /\ c.arr \in 1..Len(arrays)
  /\ Len(c.want) <= Len(arrays[c.arr])
  /\ Small(arrays, loggers[c.logger]) => /\ Holds(arrays, c.arr, c.want)
                                         /\ \A i \in 1..Len(loggers) : loggers[i].arr # c.arr

SharedIInv ==
  /\ kvArrays \in Arrays /\ kvLoggers \in Seq(Loggers) /\ kvNext \in Int
  /\ LoggersFit(kvArrays, kvKind, kvLoggers)
  /\ kvCalls \in [LogCallers -> LogCalls]
  /\ \A g \in LogCallers : kvCalls[g] # NoLogCall => CallFits(kvArrays, kvLoggers, kvCalls[g])
  /\ \A h \in kvGarbled : h \in 1..Len(kvLoggers) /\ ~Small(kvArrays, kvLoggers[h])
  /\ kvKind \in {"helper", "core"}
  /\ kvKind # "helper" => kvGarbled = {} /\ \A g \in LogCallers : kvCalls[g] = NoLogCall

LEMMA FitsTyped ==
  ASSUME NEW arrays \in Arrays, NEW kind, NEW p, LoggerFits(arrays, kind, p)
  PROVE  /\ p.arr \in 0..Len(arrays) /\ p.want \in Seq(Int) /\ p.depth \in Nat /\ p.alone \in BOOLEAN
         /\ CapOf(arrays, p.arr) \in Nat /\ Len(p.want) \in 0..CapOf(arrays, p.arr)
         /\ p.arr = 0 => Len(p.want) = 0 /\ CapOf(arrays, p.arr) = 0
         /\ p.arr # 0 => p.arr \in 1..Len(arrays) /\ Len(p.want) <= Len(arrays[p.arr])
<1>1. p.arr \in Nat /\ p.want \in Seq(Int) /\ p.depth \in Nat /\ p.alone \in BOOLEAN
  BY DEF LoggerFits, Loggers
<1>2. p.arr \in 0..Len(arrays) /\ Len(p.want) \in Nat /\ Len(p.want) <= CapOf(arrays, p.arr)
  BY <1>1 DEF LoggerFits, Arrays
<1>3. CapOf(arrays, p.arr) \in Nat
  BY <1>2 DEF CapOf, Arrays
<1>4. QED
  BY <1>1, <1>2, <1>3 DEF CapOf

\* An append through logger p.
Through(arrays, loggers, p, v, k, u, c, new, to) ==
  /\ arrays \in Arrays /\ loggers \in Seq(Loggers) /\ LoggersFit(arrays, kvKind, loggers)
  /\ \E h \in 1..Len(loggers) : p = loggers[h]
  /\ v \in Int /\ k \in Nat \ {0}
  /\ u = PutInPlace(CapOf(arrays, p.arr), Len(p.want), k)
  /\ c \in Rooms(CapOf(arrays, p.arr), Len(p.want) + k)
  /\ AppendLeaves(arrays, p.arr, Len(p.want), v, k, u, c, new, to)

LEMMA AppendThrough ==
  ASSUME NEW arrays, NEW loggers, NEW p, NEW v, NEW k, NEW u, NEW c, NEW new, NEW to,
         Through(arrays, loggers, p, v, k, u, c, new, to)
  PROVE  /\ Moved(arrays, p.arr, Len(p.want), v, k, u, c, new, to)
         /\ FullIn(arrays, p) => u = 0
         /\ LoggerFits(arrays, kvKind, p) /\ (p.alone => FirstOnArray(p, loggers))
<1>1. LoggerFits(arrays, kvKind, p) /\ (p.alone => FirstOnArray(p, loggers)) /\ arrays \in Arrays
  BY DEF Through, LoggersFit
<1>2. PICK arr \in 0..Len(arrays), cap \in Nat, n \in Nat :
        arr = p.arr /\ n = Len(p.want) /\ cap = CapOf(arrays, arr) /\ n \in 0..cap
  BY <1>1, FitsTyped
<1>3. /\ k \in Nat \ {0} /\ v \in Int /\ u = PutInPlace(cap, n, k) /\ c \in Rooms(cap, n + k)
      /\ AppendLeaves(arrays, arr, n, v, k, u, c, new, to)
  BY <1>2 DEF Through
<1>4. u \in 0..k /\ n + u <= cap /\ (n = cap => u = 0)
  BY <1>2, <1>3, InPlace
<1>5. c \in Nat /\ c >= n + k
  <2>1. n + k \in Nat
    BY <1>2, <1>3
  <2>2. QED
    BY <1>2, <1>3, <2>1, RoomsSuffice
<1>6. CanAppend(arrays, arr, n, v, k, u, c)
  BY <1>1, <1>2, <1>3, <1>4, <1>5 DEF CanAppend
<1>7. Moved(arrays, arr, n, v, k, u, c, new, to)
  BY <1>3, <1>6, AppendMoves
<1>8. QED
  BY <1>1, <1>2, <1>4, <1>7 DEF FullIn

\* Such an append leaves every logger and every call under way as it was.
LEMMA AppendKeeps ==
  ASSUME NEW arrays \in Arrays, NEW kind, NEW loggers \in Seq(Loggers), LoggersFit(arrays, kind, loggers),
         NEW p, \E h \in 1..Len(loggers) : p = loggers[h], NEW new \in Arrays, Len(new) >= Len(arrays),
         Keeps(arrays, new, p.arr, Len(p.want))
  PROVE  /\ LoggersFit(new, kind, loggers)
         /\ \A i \in 1..Len(loggers) : Small(new, loggers[i]) => Small(arrays, loggers[i])
         /\ \A c : CallFits(arrays, loggers, c) => CallFits(new, loggers, c)
<1>0. LoggerFits(arrays, kind, p)
  BY DEF LoggersFit
<1>1. ASSUME NEW i \in 1..Len(loggers) PROVE LoggerFits(new, kind, loggers[i])
  <2> DEFINE q == loggers[i]
  <2>1. LoggerFits(arrays, kind, q) /\ (q.alone => FirstOnArray(q, loggers)) /\ q \in Loggers /\ p \in Loggers
    BY DEF LoggersFit
  <2>2. q.alone /\ q.arr = p.arr => Len(q.want) <= Len(p.want)
    BY <2>1 DEF FirstOnArray
  <2> HIDE DEF q
  <2>3. CapOf(new, q.arr) = CapOf(arrays, q.arr)
    BY <2>1, FitsTyped DEF CapOf, Keeps
  <2>4. ASSUME q.alone PROVE Holds(new, q.arr, q.want)
    <3>1. ASSUME NEW j \in 1..Len(q.want) PROVE new[q.arr][j] = q.want[j]
      <4>1. arrays[q.arr][j] = q.want[j]
        BY <2>1, <2>4 DEF LoggerFits, Holds
      <4>2. q.arr \in 1..Len(arrays) /\ j \in 1..Len(arrays[q.arr])
        <5>1. q.arr # 0
          BY <2>1, FitsTyped
        <5>2. q.arr \in 1..Len(arrays) /\ Len(q.want) <= Len(arrays[q.arr]) /\ q.want \in Seq(Int)
          BY <2>1, <5>1, FitsTyped
        <5>3. Len(q.want) \in Nat /\ Len(arrays[q.arr]) \in Nat
          <6>1. Len(arrays[q.arr]) \in Nat
            BY <5>2, ArraysTyped, Zenon
          <6>2. QED
            BY <5>2, <6>1
        <5>4. QED
          BY <5>2, <5>3
      <4>3. q.arr # p.arr \/ j <= Len(p.want)
        <5>1. q.want \in Seq(Int) /\ p.want \in Seq(Int)
          BY <1>0, <2>1, FitsTyped, Zenon
        <5>2. Len(q.want) \in Nat /\ Len(p.want) \in Nat
          BY <5>1
        <5>3. QED
          BY <2>2, <2>4, <5>2
      <4>4. new[q.arr][j] = arrays[q.arr][j]
        BY <4>2, <4>3 DEF Keeps
      <4>5. QED
        BY <4>1, <4>4
    <3>2. QED
      BY <3>1 DEF Holds
  <2>5. q.arr <= Len(new)
    BY <2>1 DEF LoggerFits, Loggers, Arrays
  <2>6. LoggerFits(new, kind, q)
    BY <2>1, <2>3, <2>4, <2>5 DEF LoggerFits, FullIn
  <2>7. QED
    BY <2>6 DEF q
<1>4. ASSUME NEW i \in 1..Len(loggers), Small(new, loggers[i]) PROVE Small(arrays, loggers[i])
  <2>1. LoggerFits(arrays, kind, loggers[i])
    BY DEF LoggersFit
  <2>2. CapOf(new, loggers[i].arr) = CapOf(arrays, loggers[i].arr)
    BY <2>1, FitsTyped DEF CapOf, Keeps
  <2>3. QED
    BY <1>4, <2>2 DEF Small, FullIn
<1>2. ASSUME NEW c, CallFits(arrays, loggers, c) PROVE CallFits(new, loggers, c)
  <2>1. c \in LogCalls /\ c.arr \in 1..Len(arrays) /\ c.arr \in 1..Len(new)
    BY <1>2 DEF CallFits, Arrays
  <2>2. Len(new[c.arr]) = Len(arrays[c.arr])
    BY <2>1 DEF Keeps
  <2>3. ASSUME Small(new, loggers[c.logger]) PROVE Holds(new, c.arr, c.want)
    <3>1. c.arr # p.arr /\ Holds(arrays, c.arr, c.want)
      BY <1>2, <1>4, <2>3 DEF CallFits
    <3>2. \A j \in 1..Len(c.want) : j \in 1..Len(arrays[c.arr])
      <4>1. Len(c.want) <= Len(arrays[c.arr]) /\ c.want \in Seq(Int)
        BY <1>2, <2>1 DEF CallFits, LogCalls
      <4>2. Len(c.want) \in Nat /\ Len(arrays[c.arr]) \in Nat
        BY <2>1, <4>1, ArraysTyped
      <4>3. QED
        BY <4>1, <4>2, SMTT(30)
    <3>3. QED
      BY <2>1, <3>1, <3>2 DEF Holds, Keeps
  <2>4. QED
    BY <1>2, <1>4, <2>1, <2>2, <2>3 DEF CallFits
<1>3. QED
  BY <1>1, <1>2, <1>4 DEF LoggersFit

\* A logger's values with k more.
Extended(s, k, v) == s \o [i \in 1..k |-> v]

LEMMA ExtendedIs ==
  ASSUME NEW s \in Seq(Int), NEW k \in Nat, NEW v \in Int
  PROVE  /\ Extended(s, k, v) \in Seq(Int) /\ Len(Extended(s, k, v)) = Len(s) + k
         /\ \A j \in 1..Len(s) : Extended(s, k, v)[j] = s[j]
         /\ \A j \in (Len(s) + 1)..(Len(s) + k) : Extended(s, k, v)[j] = v
<1>1. PICK t \in Seq(Int) : t = [i \in 1..k |-> v] /\ Len(t) = k /\ \A j \in 1..k : t[j] = v
  <2>1. [i \in 1..k |-> v] \in Seq(Int) /\ Len([i \in 1..k |-> v]) = k
    OBVIOUS
  <2>2. QED
    BY <2>1
<1>2. Extended(s, k, v) = s \o t
  BY <1>1 DEF Extended
<1>3. \A j \in (Len(s) + 1)..(Len(s) + k) : j - Len(s) \in 1..k
  OBVIOUS
<1>4. QED
  BY <1>1, <1>2, <1>3, ValuesJoined

\* What moves from a logger that is alone stands behind its values.
LEMMA CopyHolds ==
  ASSUME NEW arrays \in Arrays, NEW kind, NEW p, LoggerFits(arrays, kind, p), p.alone,
         NEW v \in Int, NEW k \in Nat \ {0}, NEW c, NEW new,
         Copied(arrays, new, p.arr, Len(p.want), v, k, c)
  PROVE  Holds(new, Len(arrays) + 1, Extended(p.want, k, v))
<1> DEFINE a == Len(arrays) + 1
<1>1. PICK n \in Nat : n = Len(p.want)
  BY FitsTyped
<1>2. p.want \in Seq(Int) /\ Holds(arrays, p.arr, p.want)
  BY FitsTyped DEF LoggerFits
<1>3. /\ \A j \in 1..n : new[a][j] = arrays[p.arr][j]
      /\ \A j \in (n + 1)..(n + k) : new[a][j] = v
  BY <1>1 DEF Copied
<1> HIDE DEF a
<1>4. PICK whole : whole = Extended(p.want, k, v)
  OBVIOUS
<1>5. /\ Len(whole) = n + k
      /\ \A j \in 1..n : whole[j] = p.want[j]
      /\ \A j \in (n + 1)..(n + k) : whole[j] = v
  <2>1. k \in Nat /\ v \in Int
    OBVIOUS
  <2>2. PICK s \in Seq(Int) : s = p.want /\ Len(s) = n
    BY <1>1, <1>2
  <2>3. whole = Extended(s, k, v)
    BY <1>4, <2>2
  <2>4. /\ Len(Extended(s, k, v)) = Len(s) + k
        /\ \A j \in 1..Len(s) : Extended(s, k, v)[j] = s[j]
        /\ \A j \in (Len(s) + 1)..(Len(s) + k) : Extended(s, k, v)[j] = v
    <3>1. /\ Extended(s, k, v) \in Seq(Int) /\ Len(Extended(s, k, v)) = Len(s) + k
          /\ \A j \in 1..Len(s) : Extended(s, k, v)[j] = s[j]
          /\ \A j \in (Len(s) + 1)..(Len(s) + k) : Extended(s, k, v)[j] = v
      BY <2>1, <2>2, ExtendedIs, Zenon
    <3>2. QED
      BY <3>1
  <2>5. QED
    BY <2>2, <2>3, <2>4, Zenon
<1>6. ASSUME NEW j \in 1..Len(whole) PROVE new[a][j] = whole[j]
  <2>1. CASE j \in 1..n
    <3>1. arrays[p.arr][j] = p.want[j]
      BY <1>1, <1>2, <2>1 DEF Holds
    <3>2. new[a][j] = arrays[p.arr][j] /\ whole[j] = p.want[j]
      BY <1>3, <1>5, <2>1
    <3>3. QED
      BY <3>1, <3>2
  <2>2. CASE j \in (n + 1)..(n + k)
    BY <1>3, <1>5, <2>2
  <2>3. QED
    BY <1>5, <2>1, <2>2
<1>7. Holds(new, a, whole)
  BY <1>6 DEF Holds
<1>8. QED
  BY <1>4, <1>7 DEF a

\* What Derive makes of logger p when append leaves its values in array to, u of
\* them put in place.
Derived(p, to, k, u, v) ==
  [arr |-> to, depth |-> p.depth + 1, alone |-> p.alone /\ u = 0, want |-> Extended(p.want, k, v)]

\* A logger derived by With, of the core or the helper, or with a trace.
LEMMA NewLogger ==
  ASSUME NEW arrays, NEW loggers, NEW p, NEW v, NEW k, NEW u, NEW c, NEW new, NEW to,
         Through(arrays, loggers, p, v, k, u, c, new, to), k \in 1..16,
         NEW q, q = Derived(p, to, k, u, v)
  PROVE  /\ new \in Arrays /\ Append(loggers, q) \in Seq(Loggers)
         /\ LoggersFit(new, kvKind, Append(loggers, q))
         /\ \A i \in 1..Len(loggers) : Small(new, loggers[i]) => Small(arrays, loggers[i])
         /\ \A x : CallFits(arrays, loggers, x) => CallFits(new, Append(loggers, q), x)
<1> DEFINE after == Append(loggers, q)
<1>0. /\ arrays \in Arrays /\ loggers \in Seq(Loggers) /\ LoggersFit(arrays, kvKind, loggers)
      /\ \E h \in 1..Len(loggers) : p = loggers[h]
      /\ v \in Int /\ k \in Nat \ {0} /\ k \in Nat
      /\ c \in Rooms(CapOf(arrays, p.arr), Len(p.want) + k)
  BY DEF Through
<1>1. /\ new \in Arrays /\ Len(new) >= Len(arrays) /\ to \in 1..Len(new)
      /\ Len(p.want) + k <= Len(new[to])
      /\ to = p.arr \/ to = Len(arrays) + 1
      /\ Keeps(arrays, new, p.arr, Len(p.want))
      /\ u = 0 => to = Len(arrays) + 1 /\ Copied(arrays, new, p.arr, Len(p.want), v, k, c)
      /\ FullIn(arrays, p) => u = 0
  BY AppendThrough DEF Moved
<1>2. /\ LoggersFit(new, kvKind, loggers)
      /\ \A i \in 1..Len(loggers) : Small(new, loggers[i]) => Small(arrays, loggers[i])
      /\ \A x : CallFits(arrays, loggers, x) => CallFits(new, loggers, x)
  BY <1>0, <1>1, AppendKeeps
<1>3. LoggerFits(arrays, kvKind, p) /\ (p.alone => FirstOnArray(p, loggers))
  BY AppendThrough
<1>4. PICK n \in Nat : n = Len(p.want)
  BY <1>0, <1>3, FitsTyped
<1>5. p.depth \in Nat /\ p.alone \in BOOLEAN /\ p.want \in Seq(Int)
  BY <1>0, <1>3, FitsTyped
<1>6. q.want \in Seq(Int) /\ Len(q.want) = n + k
  <2>1. q.want = Extended(p.want, k, v)
    BY DEF Derived
  <2>2. PICK s \in Seq(Int) : s = p.want /\ Len(s) = n
    BY <1>4, <1>5
  <2>3. q.want = Extended(s, k, v)
    BY <2>1, <2>2
  <2>4. Extended(s, k, v) \in Seq(Int) /\ Len(Extended(s, k, v)) = Len(s) + k
    BY <1>0, ExtendedIs
  <2>5. QED
    BY <2>2, <2>3, <2>4, Zenon
<1>7. /\ q.arr = to /\ q.depth = p.depth + 1 /\ q.alone = (p.alone /\ u = 0)
      /\ q.want = Extended(p.want, k, v) /\ q \in Loggers /\ Len(arrays) \in Nat
  <2>1. q.arr = to /\ q.depth = p.depth + 1 /\ q.want = Extended(p.want, k, v)
    BY DEF Derived
  <2>2. q.alone = (p.alone /\ u = 0)
    BY Zenon DEF Derived
  <2>3. q.alone \in BOOLEAN
    BY <1>5, <2>2
  <2>4. to \in Nat /\ p.depth + 1 \in Nat /\ Len(arrays) \in Nat
    <3>1. to \in Nat
      BY <1>1
    <3>2. p.depth + 1 \in Nat
      BY <1>5
    <3>3. Len(arrays) \in Nat
      BY <1>0 DEF Arrays
    <3>4. QED
      BY <3>1, <3>2, <3>3
  <2>5. q = [arr |-> q.arr, depth |-> q.depth, alone |-> q.alone, want |-> q.want]
    BY Zenon DEF Derived
  <2>6. QED
    BY <1>6, <2>1, <2>2, <2>3, <2>4, <2>5 DEF Loggers
<1>8. q.alone => p.alone /\ u = 0
  BY <1>7
<1>9. LoggerFits(new, kvKind, q)
  <2>1. CapOf(new, to) = Len(new[to]) /\ to # 0
    BY <1>1 DEF CapOf
  <2>2. q.alone => Holds(new, to, q.want)
    <3>1. SUFFICES ASSUME q.alone PROVE Holds(new, to, q.want)
      OBVIOUS
    <3>2. p.alone /\ to = Len(arrays) + 1 /\ Copied(arrays, new, p.arr, Len(p.want), v, k, c)
      BY <1>1, <1>8, <3>1
    <3>3. Holds(new, Len(arrays) + 1, Extended(p.want, k, v))
      <4>1. arrays \in Arrays /\ LoggerFits(arrays, kvKind, p) /\ v \in Int /\ k \in Nat \ {0}
        BY <1>0, <1>3
      <4>2. QED
        BY <3>2, <4>1, CopyHolds, Zenon
    <3>4. q.want = Extended(p.want, k, v)
      BY <1>7
    <3>5. QED
      BY <3>2, <3>3, <3>4, Zenon
  <2>3. ASSUME p.depth = 0 PROVE p.arr = 0 /\ n = 0 /\ CapOf(arrays, p.arr) = 0
    BY <1>0, <1>3, <1>4, <2>3, FitsTyped DEF LoggerFits
  <2>4. ASSUME q.depth <= 1, kvKind = "helper" PROVE Len(q.want) = Len(new[to])
    <3>1. p.depth = 0
      BY <1>5, <1>7, <2>4
    <3>2. n = 0 /\ CapOf(arrays, p.arr) = 0
      BY <2>3, <3>1
    <3>3. c \in Rooms(0, k) /\ FullIn(arrays, p)
      <4>1. FullIn(arrays, p)
        BY <1>4, <3>2 DEF FullIn
      <4>2. c \in Rooms(0, 0 + k)
        BY <1>0, <1>4, <3>2
      <4>3. 0 + k = k
        BY <1>0
      <4>4. QED
        BY <4>1, <4>2, <4>3
    <3>4. c = k
      BY <2>4, <3>3, FirstRoom
    <3>5. Len(new[to]) = c
      BY <1>1, <3>3 DEF Copied
    <3>6. QED
      BY <1>6, <3>2, <3>4, <3>5
  <2>5. ASSUME q.depth <= (IF kvKind = "helper" THEN 2 ELSE 1) PROVE q.alone
    <3>1. p.alone
      <4>1. p.depth <= (IF kvKind = "helper" THEN 2 ELSE 1)
        BY <1>5, <1>7, <2>5
      <4>2. QED
        BY <1>3, <4>1 DEF LoggerFits
    <3>2. FullIn(arrays, p)
      <4>1. CASE kvKind = "helper"
        <5>1. p.depth <= 1
          BY <1>5, <1>7, <2>5, <4>1
        <5>2. QED
          BY <1>3, <4>1, <5>1 DEF LoggerFits
      <4>2. CASE kvKind # "helper"
        <5>1. p.depth = 0
          BY <1>5, <1>7, <2>5, <4>2
        <5>2. QED
          BY <1>4, <2>3, <5>1 DEF FullIn
      <4>3. QED
        BY <4>1, <4>2
    <3>3. QED
      BY <1>1, <1>7, <3>1, <3>2
  <2>6. to <= Len(new) /\ Len(q.want) <= Len(new[to])
    BY <1>1, <1>4, <1>6
  <2>7. q.depth # 0
    BY <1>5, <1>7
  <2>8. QED
    BY <1>7, <2>1, <2>2, <2>4, <2>5, <2>6, <2>7 DEF LoggerFits, FullIn
<1>10. /\ after \in Seq(Loggers) /\ Len(after) = Len(loggers) + 1 /\ after[Len(loggers) + 1] = q
       /\ \A i \in 1..Len(loggers) : after[i] = loggers[i]
  <2>1. q \in Loggers
    BY <1>7
  <2>2. after \in Seq(Loggers) /\ Len(after) = Len(loggers) + 1
    BY <1>0, <2>1
  <2>3. after[Len(loggers) + 1] = q
    BY <1>0, <2>1
  <2>4. \A i \in 1..Len(loggers) : after[i] = loggers[i]
    BY <1>0, <2>1
  <2>5. QED
    BY <2>2, <2>3, <2>4
<1> HIDE DEF after
<1>11. \A i \in 1..Len(after) : i \in 1..Len(loggers) \/ i = Len(loggers) + 1
  BY <1>0, <1>10, SMTT(30)
<1>12. \A i \in 1..Len(loggers) : loggers[i].arr \in 0..Len(arrays) /\ Len(loggers[i].want) \in Nat
  BY <1>0, FitsTyped DEF LoggersFit
<1>13. q.alone => FirstOnArray(q, after)
  <2>1. q.alone => \A i \in 1..Len(loggers) : loggers[i].arr # q.arr
    BY <1>1, <1>7, <1>8, <1>12, SMTT(30)
  <2>2. SUFFICES ASSUME q.alone, NEW i \in 1..Len(after), after[i].arr = q.arr
                 PROVE  Len(q.want) <= Len(after[i].want)
    BY DEF FirstOnArray
  <2>3. after[i] = q
    BY <2>1, <2>2, <1>10, <1>11
  <2>4. QED
    BY <2>3, <1>4, <1>6
<1>14. ASSUME NEW i \in 1..Len(loggers), loggers[i].alone PROVE FirstOnArray(loggers[i], after)
  <2>1. FirstOnArray(loggers[i], loggers)
    BY <1>0, <1>14 DEF LoggersFit
  <2>2. loggers[i].arr = q.arr => Len(loggers[i].want) <= Len(q.want)
    <3>1. SUFFICES ASSUME loggers[i].arr = q.arr PROVE Len(loggers[i].want) <= Len(q.want)
      OBVIOUS
    <3>2. loggers[i].arr = p.arr
      BY <1>0, <1>1, <1>7, <1>12, <3>1 DEF Arrays
    <3>3. Len(loggers[i].want) <= n
      BY <1>0, <2>1, <3>2, <1>4 DEF FirstOnArray
    <3>4. n \in Nat /\ n <= Len(q.want) /\ Len(q.want) \in Nat
      BY <1>0, <1>4, <1>6, SMTT(30)
    <3>5. Len(loggers[i].want) \in Nat
      BY <1>12
    <3>6. QED
      BY <3>3, <3>4, <3>5
  <2>3. QED
    BY <2>1, <2>2, <1>10, <1>11 DEF FirstOnArray
<1>15. LoggersFit(new, kvKind, after)
  BY <1>2, <1>9, <1>10, <1>11, <1>13, <1>14 DEF LoggersFit
<1>16. ASSUME NEW x, CallFits(arrays, loggers, x) PROVE CallFits(new, after, x)
  <2>1. CallFits(new, loggers, x) /\ x.arr \in 1..Len(arrays) /\ x.logger \in 1..Len(loggers)
    BY <1>2, <1>16 DEF CallFits
  <2>2. Small(new, loggers[x.logger]) => x.arr # q.arr
    <3>1. x.arr # Len(arrays) + 1
      BY <1>0, <1>7, <2>1
    <3>2. Small(new, loggers[x.logger]) => x.arr # p.arr
      BY <1>0, <1>2, <1>16 DEF CallFits
    <3>3. QED
      BY <1>1, <1>7, <3>1, <3>2
  <2>3. after[x.logger] = loggers[x.logger] /\ x.logger \in 1..Len(after)
    BY <1>10, <2>1
  <2>4. Small(new, loggers[x.logger]) => \A i \in 1..Len(after) : after[i].arr # x.arr
    BY <1>10, <1>11, <2>1, <2>2 DEF CallFits
  <2>5. QED
    BY <2>1, <2>3, <2>4 DEF CallFits
<1>17. QED
  BY <1>1, <1>2, <1>10, <1>15, <1>16 DEF after

\* A log call that begins, through any logger.
LEMMA NewCall ==
  ASSUME NEW arrays, NEW loggers, NEW p, NEW v, NEW u, NEW c, NEW new, NEW to,
         Through(arrays, loggers, p, v, 1, u, c, new, to),
         NEW h \in 1..Len(loggers), p = loggers[h]
  PROVE  /\ new \in Arrays /\ LoggersFit(new, kvKind, loggers)
         /\ \A i \in 1..Len(loggers) : Small(new, loggers[i]) => Small(arrays, loggers[i])
         /\ \A x : CallFits(arrays, loggers, x) => CallFits(new, loggers, x)
         /\ CallFits(new, loggers, [logger |-> h, arr |-> to, want |-> Append(p.want, v)])
<1> DEFINE want == Append(p.want, v)
<1>0. /\ arrays \in Arrays /\ loggers \in Seq(Loggers) /\ LoggersFit(arrays, kvKind, loggers)
      /\ v \in Int
  BY DEF Through
<1>1. /\ new \in Arrays /\ Len(new) >= Len(arrays) /\ to \in 1..Len(new)
      /\ Len(p.want) + 1 <= Len(new[to])
      /\ Keeps(arrays, new, p.arr, Len(p.want))
      /\ u = 0 => to = Len(arrays) + 1 /\ Copied(arrays, new, p.arr, Len(p.want), v, 1, c)
      /\ FullIn(arrays, p) => u = 0
  BY AppendThrough DEF Moved
<1>2. /\ LoggersFit(new, kvKind, loggers)
      /\ \A i \in 1..Len(loggers) : Small(new, loggers[i]) => Small(arrays, loggers[i])
      /\ \A x : CallFits(arrays, loggers, x) => CallFits(new, loggers, x)
  BY <1>0, <1>1, AppendKeeps
<1>3. LoggerFits(arrays, kvKind, p)
  BY AppendThrough
<1>4. p.want \in Seq(Int)
  BY <1>0, <1>3, FitsTyped
<1>5. /\ want \in Seq(Int) /\ Len(want) = Len(p.want) + 1
      /\ want = Extended(p.want, 1, v)
  <2>1. [i \in 1..1 |-> v] = <<v>>
    OBVIOUS
  <2>2. QED
    BY <1>0, <1>4, <2>1 DEF Extended
<1>6. Small(arrays, p) => Holds(new, to, want) /\ \A i \in 1..Len(loggers) : loggers[i].arr # to
  <2>1. \A i \in 1..Len(loggers) : loggers[i].arr \in 0..Len(arrays)
    BY <1>0, FitsTyped DEF LoggersFit
  <2>2. Small(arrays, p) => p.alone /\ u = 0
    BY <1>1 DEF Small
  <2>3. Small(arrays, p) => Holds(new, Len(arrays) + 1, want)
    <3>1. 1 \in Nat \ {0}
      OBVIOUS
    <3>2. QED
      BY <1>0, <1>1, <1>3, <1>5, <2>2, <3>1, CopyHolds
  <2>4. Len(arrays) \in Nat
    BY <1>0 DEF Arrays
  <2>5. u = 0 => \A i \in 1..Len(loggers) : loggers[i].arr # to
    BY <1>1, <2>1, <2>4, SMTT(30)
  <2>6. QED
    BY <1>1, <2>2, <2>3, <2>5
<1> HIDE DEF want
<1>7. [logger |-> h, arr |-> to, want |-> want] \in LogCalls
  <2>1. to \in Nat /\ h \in Nat
    BY <1>1
  <2>2. QED
    BY <1>5, <2>1 DEF LogCalls
<1>8. CallFits(new, loggers, [logger |-> h, arr |-> to, want |-> want])
  <2>1. PICK x : x = [logger |-> h, arr |-> to, want |-> want]
    OBVIOUS
  <2>2. x \in LogCalls /\ x.logger = h /\ x.arr = to /\ x.want = want
    BY <1>7, <2>1
  <2>3. loggers[x.logger] = p /\ (Small(new, p) => Small(arrays, p))
    BY <1>2, <2>2
  <2>4. CallFits(new, loggers, x)
    BY <1>1, <1>5, <1>6, <2>2, <2>3 DEF CallFits
  <2>5. QED
    BY <2>1, <2>4
<1>9. QED
  BY <1>1, <1>2, <1>8 DEF want

LEMMA SharedInitInv == SharedKvsInit => SharedIInv
<1> SUFFICES ASSUME SharedKvsInit PROVE SharedIInv
  OBVIOUS
<1>1. PICK root : root = [arr |-> 0, depth |-> 0, alone |-> TRUE, want |-> <<>>]
  OBVIOUS
<1>2. root \in Loggers /\ root.arr = 0 /\ root.depth = 0 /\ Len(root.want) = 0 /\ root.alone
  BY <1>1 DEF Loggers
<1>3. kvArrays = <<>> /\ kvLoggers = <<root>> /\ kvGarbled = {} /\ kvNext = 1
  BY <1>1 DEF SharedKvsInit, NewHelper
<1>4. LoggerFits(<<>>, kvKind, root)
  BY <1>2 DEF LoggerFits, CapOf, Holds, FullIn
<1>5. Len(<<root>>) = 1 /\ <<root>>[1] = root /\ <<root>> \in Seq(Loggers)
  BY <1>2
<1>6. LoggersFit(kvArrays, kvKind, kvLoggers)
  BY <1>2, <1>3, <1>4, <1>5 DEF LoggersFit, FirstOnArray
<1>7. NoLogCall \in LogCalls
  BY DEF NoLogCall, LogCalls
<1>8. kvCalls = [g \in LogCallers |-> NoLogCall] /\ kvKind \in {"helper", "core"}
  BY DEF SharedKvsInit
<1>9. kvArrays \in Arrays
  BY <1>3 DEF Arrays
<1>10. QED
  BY <1>3, <1>5, <1>6, <1>7, <1>8, <1>9 DEF SharedIInv

\* What Derive does to the arrays, the loggers and the calls.
LEMMA DeriveInv ==
  ASSUME SharedIInv, NEW h \in DOMAIN kvLoggers, NEW k \in 1..16, Derive(h, k)
  PROVE  SharedIInv'
<1>1. kvArrays \in Arrays /\ kvLoggers \in Seq(Loggers) /\ kvNext \in Int /\ h \in 1..Len(kvLoggers)
      /\ LoggersFit(kvArrays, kvKind, kvLoggers)
  BY DEF SharedIInv
<1>2. PICK p : p = kvLoggers[h]
  OBVIOUS
<1>3. PICK u : u = PutInPlace(CapOf(kvArrays, p.arr), Len(p.want), k)
  OBVIOUS
<1>4. PICK c \in Rooms(CapOf(kvArrays, p.arr), Len(p.want) + k) :
        /\ kvNext' = kvNext + 1
        /\ kvArrays' = AppendTo(kvArrays, p.arr, Len(p.want), kvNext, k, u, c).arrays
        /\ kvLoggers' = Append(kvLoggers,
             Derived(p, AppendTo(kvArrays, p.arr, Len(p.want), kvNext, k, u, c).arr, k, u, kvNext))
        /\ UNCHANGED <<kvCalls, kvGarbled, kvKind>>
  BY <1>2, <1>3, Zenon DEF Derive, Derived, Extended
<1>5. PICK new, to : AppendLeaves(kvArrays, p.arr, Len(p.want), kvNext, k, u, c, new, to)
  BY DEF AppendTo, AppendLeaves
<1>6. PICK q : q = Derived(p, to, k, u, kvNext)
  OBVIOUS
<1>7. kvArrays' = new /\ kvLoggers' = Append(kvLoggers, q)
  BY <1>4, <1>5, <1>6 DEF AppendLeaves
<1>8. /\ new \in Arrays /\ Append(kvLoggers, q) \in Seq(Loggers)
      /\ LoggersFit(new, kvKind, Append(kvLoggers, q))
      /\ \A i \in 1..Len(kvLoggers) : Small(new, kvLoggers[i]) => Small(kvArrays, kvLoggers[i])
      /\ \A x : CallFits(kvArrays, kvLoggers, x) => CallFits(new, Append(kvLoggers, q), x)
  <2>1. Through(kvArrays, kvLoggers, p, kvNext, k, u, c, new, to)
    BY <1>1, <1>2, <1>3, <1>4, <1>5 DEF Through
  <2>2. QED
    BY <1>6, <2>1, NewLogger
<1>9. \A g \in LogCallers : kvCalls'[g] # NoLogCall => CallFits(kvArrays', kvLoggers', kvCalls'[g])
  BY <1>4, <1>7, <1>8 DEF SharedIInv
<1>10. \A i \in 1..Len(kvLoggers) : i \in 1..Len(kvLoggers') /\ kvLoggers'[i] = kvLoggers[i]
  BY <1>1, <1>7, <1>8
<1>11. \A i \in kvGarbled' : i \in 1..Len(kvLoggers') /\ ~Small(kvArrays', kvLoggers'[i])
  BY <1>4, <1>7, <1>8, <1>10 DEF SharedIInv
<1>12. QED
  BY <1>1, <1>4, <1>7, <1>8, <1>9, <1>11 DEF SharedIInv

LEMMA LogBeginInv ==
  ASSUME SharedIInv, NEW g \in LogCallers, NEW h \in DOMAIN kvLoggers, LogBegin(g, h)
  PROVE  SharedIInv'
<1>1. kvArrays \in Arrays /\ kvLoggers \in Seq(Loggers) /\ kvNext \in Int /\ h \in 1..Len(kvLoggers)
      /\ LoggersFit(kvArrays, kvKind, kvLoggers)
  BY DEF SharedIInv
<1>2. PICK p : p = kvLoggers[h]
  OBVIOUS
<1>3. PICK u : u = PutInPlace(CapOf(kvArrays, p.arr), Len(p.want), 1)
  OBVIOUS
<1>4. PICK c \in Rooms(CapOf(kvArrays, p.arr), Len(p.want) + 1) :
        /\ kvKind = "helper" /\ kvNext' = kvNext + 1
        /\ kvArrays' = AppendTo(kvArrays, p.arr, Len(p.want), kvNext, 1, u, c).arrays
        /\ kvCalls' = [kvCalls EXCEPT ![g] =
             [logger |-> h, arr |-> AppendTo(kvArrays, p.arr, Len(p.want), kvNext, 1, u, c).arr,
              want |-> Append(p.want, kvNext)]]
        /\ UNCHANGED <<kvLoggers, kvGarbled, kvKind>>
  BY <1>2, <1>3, Zenon DEF LogBegin
<1>5. PICK new, to : AppendLeaves(kvArrays, p.arr, Len(p.want), kvNext, 1, u, c, new, to)
  BY DEF AppendTo, AppendLeaves
<1>6. PICK call : call = [logger |-> h, arr |-> to, want |-> Append(p.want, kvNext)]
  OBVIOUS
<1>7. kvArrays' = new /\ kvCalls' = [kvCalls EXCEPT ![g] = call]
  <2>1. PICK r : r = AppendTo(kvArrays, p.arr, Len(p.want), kvNext, 1, u, c)
    OBVIOUS
  <2>2. r.arrays = new /\ r.arr = to
    BY <1>5, <2>1 DEF AppendLeaves
  <2>3. /\ kvArrays' = r.arrays
        /\ kvCalls' = [kvCalls EXCEPT ![g] =
             [logger |-> h, arr |-> r.arr, want |-> Append(p.want, kvNext)]]
    BY <1>4, <2>1, Zenon
  <2>4. QED
    BY <1>6, <2>2, <2>3, Zenon
<1>8. /\ new \in Arrays /\ LoggersFit(new, kvKind, kvLoggers)
      /\ \A i \in 1..Len(kvLoggers) : Small(new, kvLoggers[i]) => Small(kvArrays, kvLoggers[i])
      /\ \A x : CallFits(kvArrays, kvLoggers, x) => CallFits(new, kvLoggers, x)
      /\ CallFits(new, kvLoggers, call)
  <2>1. Through(kvArrays, kvLoggers, p, kvNext, 1, u, c, new, to)
    BY <1>1, <1>2, <1>3, <1>4, <1>5 DEF Through
  <2>2. QED
    BY <1>1, <1>2, <1>6, <2>1, NewCall
<1>9. call \in LogCalls
  BY <1>8 DEF CallFits
<1>10. kvCalls' \in [LogCallers -> LogCalls] /\ \A o \in LogCallers : kvCalls'[o] = IF o = g THEN call ELSE kvCalls[o]
  BY <1>7, <1>9 DEF SharedIInv
<1>11. \A o \in LogCallers : kvCalls'[o] # NoLogCall => CallFits(kvArrays', kvLoggers', kvCalls'[o])
  BY <1>4, <1>7, <1>8, <1>10 DEF SharedIInv
<1>12. \A i \in kvGarbled' : i \in 1..Len(kvLoggers') /\ ~Small(kvArrays', kvLoggers'[i])
  BY <1>4, <1>7, <1>8 DEF SharedIInv
<1>13. /\ kvArrays' \in Arrays /\ LoggersFit(kvArrays', kvKind', kvLoggers')
       /\ kvLoggers' \in Seq(Loggers) /\ kvNext' \in Int /\ kvKind' = "helper"
  BY <1>1, <1>4, <1>7, <1>8
<1>14. QED
  BY <1>10, <1>11, <1>12, <1>13 DEF SharedIInv

\* A slice of the first values of an array holds them.
LEMMA SliceHolds ==
  ASSUME NEW arrays \in Arrays, NEW arr \in 1..Len(arrays), NEW want \in Seq(Int),
         Len(want) <= Len(arrays[arr]), Holds(arrays, arr, want)
  PROVE  SubSeq(arrays[arr], 1, Len(want)) = want
<1>1. PICK s \in Seq(Int) : s = arrays[arr]
  BY DEF Arrays
<1>2. Len(want) <= Len(s) /\ \A j \in 1..Len(want) : s[j] = want[j]
  BY <1>1 DEF Holds
<1>3. SubSeq(s, 1, Len(want)) = want
  BY <1>2
<1>4. QED
  BY <1>1, <1>3

LEMMA LogEndInv ==
  ASSUME SharedIInv, NEW g \in LogCallers, LogEnd(g)
  PROVE  SharedIInv'
<1>1. PICK c : c = kvCalls[g] /\ c # NoLogCall /\ CallFits(kvArrays, kvLoggers, c)
  BY DEF SharedIInv, LogEnd
<1>2. /\ kvCalls' = [kvCalls EXCEPT ![g] = NoLogCall]
      /\ kvGarbled' = IF Content(c.arr, Len(c.want)) = c.want THEN kvGarbled ELSE kvGarbled \cup {c.logger}
      /\ UNCHANGED <<kvArrays, kvLoggers, kvNext, kvKind>>
  BY <1>1 DEF LogEnd
<1>3. c.logger \in 1..Len(kvLoggers) /\ c.arr \in 1..Len(kvArrays) /\ c.want \in Seq(Int)
      /\ Len(c.want) <= Len(kvArrays[c.arr])
  BY <1>1 DEF CallFits, LogCalls
<1>4. Small(kvArrays, kvLoggers[c.logger]) => Content(c.arr, Len(c.want)) = c.want
  <2>1. SUFFICES ASSUME Small(kvArrays, kvLoggers[c.logger]) PROVE Content(c.arr, Len(c.want)) = c.want
    OBVIOUS
  <2>2. Holds(kvArrays, c.arr, c.want) /\ kvArrays \in Arrays
    BY <1>1, <2>1 DEF CallFits, SharedIInv
  <2>3. SubSeq(kvArrays[c.arr], 1, Len(c.want)) = c.want
    BY <1>3, <2>2, SliceHolds
  <2>4. Content(c.arr, Len(c.want)) = SubSeq(kvArrays[c.arr], 1, Len(c.want))
    <3>1. c.arr # 0
      BY <1>3
    <3>2. QED
      BY <3>1, Zenon DEF Content
  <2>5. QED
    BY <2>3, <2>4, Zenon
<1>5. \A h \in kvGarbled' : h \in 1..Len(kvLoggers) /\ ~Small(kvArrays, kvLoggers[h])
  BY <1>2, <1>3, <1>4 DEF SharedIInv
<1>6. NoLogCall \in LogCalls
  BY DEF NoLogCall, LogCalls
<1>7. kvCalls' \in [LogCallers -> LogCalls] /\ \A o \in LogCallers : kvCalls'[o] = IF o = g THEN NoLogCall ELSE kvCalls[o]
  BY <1>2, <1>6 DEF SharedIInv
<1>8. kvKind = "helper"
  BY <1>1 DEF SharedIInv
<1>9. QED
  BY <1>2, <1>5, <1>7, <1>8 DEF SharedIInv

LEMMA SharedNextInv == SharedIInv /\ [SharedKvsNext]_kvVars => SharedIInv'
<1> SUFFICES ASSUME SharedIInv, [SharedKvsNext]_kvVars PROVE SharedIInv'
  OBVIOUS
<1>1. ASSUME NEW h \in DOMAIN kvLoggers, NEW k \in Widths, HelperWith(h, k) \/ CoreWith(h, k)
      PROVE  SharedIInv'
  <2>1. Derive(h, k) /\ k \in 1..16
    BY <1>1, SharedKvsAssumption DEF HelperWith, CoreWith
  <2>2. QED
    BY <2>1, DeriveInv
<1>2. ASSUME NEW h \in DOMAIN kvLoggers, WithDDOtelTrace(h) PROVE SharedIInv'
  <2>1. Derive(h, 4) /\ 4 \in 1..16
    BY <1>2 DEF WithDDOtelTrace
  <2>2. QED
    BY <2>1, DeriveInv, Zenon
<1>3. ASSUME UNCHANGED kvVars PROVE SharedIInv'
  BY <1>3 DEF kvVars, SharedIInv
<1>4. QED
  BY <1>1, <1>2, <1>3, LogBeginInv, LogEndInv DEF SharedKvsNext

\* For any goroutines, any number of appends and With of any 1 to 16 values: a
\* logger keeps its values when no With on the way to it found room in an array
\* that another has, which holds of the first two of a helper and the first of a
\* core, and a helper that is alone with a full array logs its own (helper.go
\* With and Infof, core.go addFields).
THEOREM ShallowLoggersAreSafe == SharedKvsSpec => []ShallowKept
<1>1. SharedIInv => ShallowKept
  <2> SUFFICES ASSUME SharedIInv PROVE ShallowKept
    OBVIOUS
  <2>1. ASSUME NEW i \in DOMAIN kvLoggers, kvLoggers[i].alone PROVE HasOwnValues(kvLoggers[i])
    <3>1. PICK p : p = kvLoggers[i]
      OBVIOUS
    <3>2. LoggerFits(kvArrays, kvKind, p) /\ Holds(kvArrays, p.arr, p.want) /\ kvArrays \in Arrays
      BY <2>1, <3>1 DEF SharedIInv, LoggersFit, LoggerFits
    <3>3. p.want \in Seq(Int) /\ (p.arr = 0 => Len(p.want) = 0)
          /\ (p.arr # 0 => p.arr \in 1..Len(kvArrays) /\ Len(p.want) <= Len(kvArrays[p.arr]))
      BY <3>2, FitsTyped
    <3>4. CASE p.arr = 0
      <4>1. p.want = <<>>
        BY <3>3, <3>4
      <4>2. QED
        BY <3>1, <3>4, <4>1 DEF HasOwnValues, Content
    <3>5. CASE p.arr # 0
      <4>1. SubSeq(kvArrays[p.arr], 1, Len(p.want)) = p.want
        BY <3>2, <3>3, <3>5, SliceHolds
      <4>2. QED
        BY <3>1, <3>5, <4>1 DEF HasOwnValues, Content
    <3>6. QED
      BY <3>4, <3>5
  <2>2. LoggersKept
    BY <2>1 DEF LoggersKept, SharedIInv, LoggersFit, LoggerFits
  <2>3. ASSUME NEW h \in kvGarbled
        PROVE  ~(kvLoggers[h].alone /\ IsFull(kvLoggers[h])) /\ kvLoggers[h].depth > 1
    <3>1. /\ h \in 1..Len(kvLoggers) /\ ~Small(kvArrays, kvLoggers[h]) /\ kvKind = "helper"
          /\ LoggerFits(kvArrays, kvKind, kvLoggers[h]) /\ kvArrays \in Arrays
      BY DEF SharedIInv, LoggersFit
    <3>2. kvLoggers[h].depth \in Nat
      BY <3>1, FitsTyped
    <3>3. kvLoggers[h].depth <= 1 => Small(kvArrays, kvLoggers[h])
      BY <3>1, <3>2 DEF LoggerFits, Small
    <3>4. QED
      BY <3>1, <3>2, <3>3 DEF Small, FullIn, IsFull
  <2>4. QED
    BY <2>2, <2>3 DEF ShallowKept, LogsKept
<1>2. QED
  BY SharedInitInv, SharedNextInv, <1>1, PTL DEF SharedKvsSpec

-----------------------------------------------------------------------------
(* LogText: the cut of a file.                                              *)

\* Where a chunk ends: not before it begins, but for the last; behind a line
\* feed, or at the end of the data or past it.
LEMMA ChunkEndsAtLine ==
  ASSUME NEW data \in Seq({"x", "\n"}), NEW n \in Nat \ {0}, NEW i \in 1..n, NEW start \in Nat
  PROVE  LET end == ChunkEnd(data, start, i, n)
         IN  /\ end \in Nat /\ (i # n => end >= start) /\ (i = n => end = Len(data))
             /\ end = Len(data) \/ end > Len(data) \/ (end \in 1..Len(data) /\ data[end] = "\n")
<1>1. Len(data) \in Nat
  OBVIOUS
<1>2. PICK share \in Nat : share = Len(data) \div n
  BY <1>1
<1>3. PICK end \in Nat : end = start + share
  BY <1>2
<1>4. PICK feeds : feeds = {k \in (end + 1)..Len(data) : data[k] = "\n"}
  OBVIOUS
<1>5. PICK e : e = ChunkEnd(data, start, i, n)
  OBVIOUS
<1>6. e = IF i = n THEN Len(data)
          ELSE IF feeds # {} THEN CHOOSE k \in feeds : \A l \in feeds : k <= l
          ELSE IF end > Len(data) THEN end ELSE Len(data)
  BY <1>2, <1>3, <1>4, <1>5 DEF ChunkEnd
<1>7. ASSUME feeds # {} PROVE \E k \in feeds : \A l \in feeds : k <= l
  <2>1. feeds \in SUBSET Nat
    BY <1>1, <1>4
  <2>2. PICK k \in feeds : \A l \in feeds : ~(l < k)
    BY <1>7, <2>1, LeastNumber
  <2>3. \A l \in feeds : k <= l
    BY <2>1, <2>2
  <2>4. QED
    BY <2>3
<1>8. \A k \in feeds : k \in 1..Len(data) /\ k >= start /\ data[k] = "\n"
  BY <1>1, <1>3, <1>4
<1>9. CASE i = n
  BY <1>1, <1>5, <1>6, <1>9
<1>10. CASE i # n /\ feeds # {}
  <2>1. e \in feeds
    BY <1>6, <1>7, <1>10
  <2>2. QED
    BY <1>1, <1>5, <1>8, <1>10, <2>1
<1>11. CASE i # n /\ feeds = {}
  BY <1>1, <1>3, <1>5, <1>6, <1>11
<1>12. QED
  BY <1>9, <1>10, <1>11

Bytes == {"x", "\n"}

\* The ends of the chunks, one after the other.
LEMMA SplitIs ==
  ASSUME NEW data \in Seq(Bytes), NEW n \in Nat \ {0}
  PROVE  \E end \in [0..n -> Nat] :
           /\ SplitDataToChunks(data, n) = [i \in 1..n |-> [start |-> end[i - 1], end |-> end[i]]]
           /\ end[0] = 0 /\ \A i \in 1..n : end[i] = ChunkEnd(data, end[i - 1], i, n)
<1>1. PICK Step : Step = [i \in 1..n |-> [start \in Nat |-> ChunkEnd(data, start, i, n)]]
  OBVIOUS
<1>2. \A i \in 1..n, start \in Nat : ChunkEnd(data, start, i, n) \in Nat
  BY ChunkEndsAtLine DEF Bytes
<1>3. Step \in [1..n -> [Nat -> Nat]]
  BY <1>1, <1>2
<1>4. PICK f \in [0..n -> Nat] : f[0] = 0 /\ \A i \in 1..n : f[i] = Step[i][f[i - 1]]
  <2>1. n \in Nat /\ 0 \in Nat /\ Step \in Steps(n, Nat)
    BY <1>3 DEF Steps
  <2>2. Walks(n, Nat, 0, Step) # {}
    BY <2>1, WalkExists
  <2>3. QED
    BY <2>2 DEF Walks
<1>5. ASSUME NEW i \in 1..n PROVE f[i] = ChunkEnd(data, f[i - 1], i, n)
  <2>1. f[i - 1] \in Nat
    OBVIOUS
  <2>2. QED
    BY <1>1, <1>4, <2>1
<1> DEFINE Ends(end) == end = [i \in 0..n |-> IF i = 0 THEN 0 ELSE ChunkEnd(data, end[i - 1], i, n)]
<1>6. Ends(f)
  <2>1. f = [i \in 0..n |-> f[i]]
    OBVIOUS
  <2>2. \A i \in 0..n : f[i] = IF i = 0 THEN 0 ELSE ChunkEnd(data, f[i - 1], i, n)
    BY <1>4, <1>5
  <2>3. QED
    BY <2>1, <2>2
<1>7. PICK end : end = CHOOSE g : Ends(g)
  OBVIOUS
<1>8. Ends(end)
  <2> HIDE DEF Ends
  <2>1. QED
    BY <1>6, <1>7
<1>9. SplitDataToChunks(data, n) = [i \in 1..n |-> [start |-> end[i - 1], end |-> end[i]]]
  BY <1>7 DEF SplitDataToChunks
<1>10. end[0] = 0 /\ \A i \in 1..n : end[i] = ChunkEnd(data, end[i - 1], i, n)
  <2>1. \A i \in 0..n : end[i] = IF i = 0 THEN 0 ELSE ChunkEnd(data, end[i - 1], i, n)
    BY <1>8
  <2>2. QED
    BY <2>1
<1>11. end \in [0..n -> Nat]
  <2> DEFINE T == {i \in 0..n : end[i] \in Nat}
  <2>0. 0 \in T
    BY <1>10
  <2>1. ASSUME NEW i \in 1..n, i - 1 \in T PROVE i \in T
    <3>1. end[i - 1] \in Nat /\ i \in 0..n
      BY <2>1
    <3>2. ChunkEnd(data, end[i - 1], i, n) \in Nat
      BY <1>2, <3>1
    <3>3. QED
      BY <1>10, <3>1, <3>2
  <2>2. 0..n \subseteq T
    <3> HIDE DEF T
    <3>1. QED
      BY <2>0, <2>1, CountUp
  <2>3. \A i \in 0..n : end[i] \in Nat
    BY <2>2
  <2>4. end = [i \in 0..n |-> end[i]]
    BY <1>8
  <2>5. QED
    BY <2>3, <2>4
<1>12. QED
  BY <1>9, <1>10, <1>11

\* No chunk but the last ends before it begins, and none ends inside a line.
LEMMA LinesStayWhole ==
  ASSUME NEW data \in Seq(Bytes), NEW n \in Nat \ {0},
         NEW a \in 0..Len(data), NEW b \in 1..Len(data), IsLine(data, a, b)
  PROVE  LET chunks == SplitDataToChunks(data, n)
         IN  \E i \in DOMAIN chunks :
               /\ chunks[i].start <= a /\ b <= chunks[i].end
               /\ \A j \in DOMAIN chunks \ {i} : chunks[j].end <= a \/ b <= chunks[j].start
<1>1. Len(data) \in Nat
  OBVIOUS
<1>2. PICK end \in [0..n -> Nat] :
        /\ SplitDataToChunks(data, n) = [i \in 1..n |-> [start |-> end[i - 1], end |-> end[i]]]
        /\ end[0] = 0 /\ \A i \in 1..n : end[i] = ChunkEnd(data, end[i - 1], i, n)
  BY SplitIs
<1>3. PICK chunks : chunks = SplitDataToChunks(data, n)
  OBVIOUS
<1>4. DOMAIN chunks = 1..n /\ \A i \in 1..n : chunks[i].start = end[i - 1] /\ chunks[i].end = end[i]
  BY <1>2, <1>3
<1>5. ASSUME NEW i \in 1..n
      PROVE  /\ i # n => end[i] >= end[i - 1]
             /\ i = n => end[i] = Len(data)
             /\ end[i] >= Len(data) \/ (end[i] \in 1..Len(data) /\ data[end[i]] = "\n")
  <2>1. PICK start \in Nat : start = end[i - 1]
    OBVIOUS
  <2>2. PICK e : e = ChunkEnd(data, start, i, n) /\ e = end[i]
    BY <1>2, <2>1
  <2>3. /\ e \in Nat /\ (i # n => e >= start) /\ (i = n => e = Len(data))
        /\ e = Len(data) \/ e > Len(data) \/ (e \in 1..Len(data) /\ data[e] = "\n")
    BY <2>2, ChunkEndsAtLine DEF Bytes
  <2>4. QED
    BY <1>1, <2>1, <2>2, <2>3
<1>6. ASSUME NEW i \in 0..n PROVE end[i] <= a \/ b <= end[i]
  <2>1. CASE i = 0
    BY <1>2, <2>1
  <2>2. CASE i # 0
    <3>1. PICK e \in Nat : e = end[i]
      OBVIOUS
    <3>2. e >= Len(data) \/ (e \in 1..Len(data) /\ data[e] = "\n")
      BY <1>5, <2>2, <3>1
    <3>3. e \notin (a + 1)..(b - 1) \/ e >= Len(data)
      BY <3>2 DEF IsLine
    <3>4. QED
      BY <1>1, <3>1, <3>3
  <2>3. QED
    BY <2>1, <2>2
\* The chunk of the line is the first that ends behind it.
<1>7. PICK i \in 1..n : b <= end[i] /\ \A j \in 1..n : b <= end[j] => i <= j
  <2>1. n \in {j \in 1..n : b <= end[j]}
    BY <1>1, <1>5
  <2>2. PICK i \in {j \in 1..n : b <= end[j]} : \A j \in {j \in 1..n : b <= end[j]} : ~(j < i)
    <3>1. {j \in 1..n : b <= end[j]} \in SUBSET Nat
      OBVIOUS
    <3>2. QED
      BY <2>1, <3>1, LeastNumber
  <2>3. \A j \in 1..n : b <= end[j] => i <= j
    BY <2>2
  <2>4. QED
    BY <2>2, <2>3
<1>8. end[i - 1] <= a
  <2>1. i - 1 \in 0..n /\ (i - 1 = 0 \/ i - 1 \in 1..n)
    OBVIOUS
  <2>2. ~(b <= end[i - 1])
    BY <1>2, <1>7, <2>1
  <2>3. QED
    BY <1>6, <2>1, <2>2
<1>9. ASSUME NEW j \in (i + 1)..n PROVE b <= end[j - 1]
  <2> DEFINE T == {k \in 0..(n - i) : k < n - i => b <= end[i + k]}
  <2>1. n - i \in Nat /\ 0 \in T
    BY <1>7
  <2>2. ASSUME NEW k \in 1..(n - i), k - 1 \in T PROVE k \in T
    <3>1. CASE k = n - i
      BY <3>1
    <3>2. CASE k # n - i
      <4>1. i + (k - 1) = (i + k) - 1 /\ i + k \in 1..n /\ i + k # n /\ (i + k) - 1 \in 0..n
        BY <3>2
      <4>2. b <= end[(i + k) - 1]
        BY <2>2, <3>2, <4>1
      <4>3. end[i + k] >= end[(i + k) - 1] /\ end[i + k] \in Nat /\ end[(i + k) - 1] \in Nat
        BY <1>5, <4>1
      <4>4. QED
        BY <4>2, <4>3
    <3>3. QED
      BY <3>1, <3>2
  <2>3. 0..(n - i) \subseteq T
    <3> HIDE DEF T
    <3>1. QED
      BY <2>1, <2>2, CountUp
  <2>4. j - 1 - i \in 0..(n - i) /\ j - 1 - i < n - i /\ i + (j - 1 - i) = j - 1
    OBVIOUS
  <2>5. QED
    BY <2>3, <2>4
<1>10. ASSUME NEW j \in (1..n) \ {i} PROVE end[j] <= a \/ b <= end[j - 1]
  <2>1. CASE j < i
    <3>1. ~(b <= end[j]) /\ j \in 0..n
      BY <1>7, <2>1
    <3>2. QED
      BY <1>6, <3>1
  <2>2. CASE j > i
    BY <1>9, <2>2
  <2>3. QED
    BY <2>1, <2>2
<1>11. /\ chunks[i].start <= a /\ b <= chunks[i].end
       /\ \A j \in DOMAIN chunks \ {i} : chunks[j].end <= a \/ b <= chunks[j].start
  BY <1>4, <1>7, <1>8, <1>10
<1>12. i \in DOMAIN chunks
  BY <1>4
<1>13. QED
  BY <1>3, <1>11, <1>12

\* Of fields whose values come from one place, the map has those that are there.
LEMMA FieldMapHas ==
  ASSUME NEW source, NEW fields \in CallFields(source), NEW k \in FieldKeys
  PROVE  FieldMap(fields)[k] = IF \E i \in DOMAIN fields : fields[i].key = k THEN source ELSE NoField
<1>1. PICK n \in 0..1 : fields \in [1..n -> [key : FieldKeys, value : {source}]]
  BY DEF CallFields
<1>2. PICK at : at = {i \in DOMAIN fields : fields[i].key = k}
  OBVIOUS
<1>3. FieldMap(fields)[k] = IF at = {} THEN NoField
                            ELSE fields[CHOOSE i \in at : \A j \in at : j <= i].value
  BY <1>2 DEF FieldMap
<1>4. DOMAIN fields = 1..n /\ \A i \in 1..n : i = 1 /\ fields[i].value = source
  BY <1>1
<1>5. ASSUME at # {} PROVE at = {1} /\ fields[1].value = source
  BY <1>2, <1>4, <1>5
<1>6. ASSUME at # {} PROVE (CHOOSE i \in at : \A j \in at : j <= i) = 1
  <2>1. \E i \in at : \A j \in at : j <= i
    BY <1>5, <1>6
  <2>2. QED
    BY <1>5, <1>6, <2>1
<1>7. at = {} <=> ~\E i \in DOMAIN fields : fields[i].key = k
  BY <1>2
<1>8. QED
  BY <1>3, <1>5, <1>6, <1>7

LEMMA WriteKeeps == CallWrite => FilteredStays'
<1> SUFFICES ASSUME CallWrite PROVE FilteredStays'
  OBVIOUS
<1>1. PICK fields \in CallFields("call"), with \in CallFields("with"),
           config \in SUBSET FieldKeys, filter \in SUBSET FieldKeys :
        /\ ltIn' = [fields |-> fields, with |-> with, config |-> config, filter |-> filter]
        /\ ltOut' = WriteFields(fields, with, config, filter)
  BY DEF CallWrite
<1>2. /\ ltIn'.fields = fields /\ ltIn'.with = with
      /\ ltIn'.config = config /\ ltIn'.filter = filter
  BY <1>1
<1>3. ASSUME NEW k \in FieldKeys
      PROVE  ltOut'[k] = IF k \in filter THEN NoField ELSE IF k \in config THEN "config"
                         ELSE IF \E i \in DOMAIN with : with[i].key = k THEN "with"
                         ELSE IF \E i \in DOMAIN fields : fields[i].key = k THEN "call" ELSE NoField
  <2>1. PICK called, kept : called = FieldMap(fields) /\ kept = FieldMap(with)
    OBVIOUS
  <2>2. PICK merged : merged = [j \in FieldKeys |-> IF kept[j] # NoField THEN kept[j] ELSE called[j]]
    OBVIOUS
  <2>3. ltOut' = FilterFields(merged, config, filter)
    BY <1>1, <2>1, <2>2 DEF WriteFields
  <2>4. ltOut'[k] = IF k \in filter THEN NoField ELSE IF k \in config THEN "config" ELSE merged[k]
    BY <2>3 DEF FilterFields
  <2>5. merged[k] = IF kept[k] # NoField THEN kept[k] ELSE called[k]
    BY <2>2
  <2>6. /\ called[k] = IF \E i \in DOMAIN fields : fields[i].key = k THEN "call" ELSE NoField
        /\ kept[k] = IF \E i \in DOMAIN with : with[i].key = k THEN "with" ELSE NoField
    BY <2>1, FieldMapHas
  <2>7. QED
    BY <2>4, <2>5, <2>6 DEF NoField
<1>4. QED
  BY <1>2, <1>3 DEF FilteredStays

\* The header the application adds, for up to two names of one text each.
LEMMA HeaderOnes ==
  ASSUME NEW n \in 0..2, NEW lengths \in [1..n -> {1}]
  PROVE  HeaderOf(lengths) \in [1..n -> {<<"header", 1>>}]
<1>1. PICK texts : texts = [i \in 1..n |-> <<<<"header", 1>>>>]
  OBVIOUS
<1>2. \A i \in 1..n : Text("header", lengths[i]) = <<<<"header", 1>>>>
  BY DEF Text
<1>3. HeaderOf(lengths) = FlattenSeq(texts)
  BY <1>1, <1>2 DEF HeaderOf
<1>4. texts \in Seq(Seq({<<"header", 1>>})) /\ Len(texts) = n
  BY <1>1
<1>5. CASE n = 0
  BY <1>1, <1>3, <1>4, <1>5 DEF FlattenSeq
<1>6. CASE n = 1 \/ n = 2
  <2> DEFINE Flat(f) == f = [i \in 1..n |-> IF i = 1 THEN texts[i] ELSE f[i - 1] \o texts[i]]
  <2>1. PICK f : f = [i \in 1..n |-> IF i = 1 THEN texts[1] ELSE texts[1] \o texts[2]]
    OBVIOUS
  <2>2. Flat(f)
    <3>1. \A i \in 1..n : i = 1 \/ (i = 2 /\ i - 1 = 1 /\ 1 \in 1..n)
      BY <1>6
    <3>2. \A i \in 1..n : f[i] = IF i = 1 THEN texts[i] ELSE f[i - 1] \o texts[i]
      BY <2>1, <3>1
    <3>3. f = [i \in 1..n |-> f[i]]
      BY <2>1
    <3>4. QED
      BY <3>2, <3>3
  <2>3. PICK g : g = CHOOSE h : Flat(h)
    OBVIOUS
  <2>4. Flat(g)
    <3> HIDE DEF Flat
    <3>1. QED
      BY <2>2, <2>3
  <2>5. FlattenSeq(texts) = g[n]
    BY <1>4, <1>6, <2>3 DEF FlattenSeq
  <2>6. \A i \in 1..n : g[i] = IF i = 1 THEN texts[i] ELSE g[i - 1] \o texts[i]
    BY <2>4
  <2>7. CASE n = 1
    BY <1>1, <1>3, <2>5, <2>6, <2>7
  <2>8. CASE n = 2
    <3>1. g[1] = <<<<"header", 1>>>> /\ g[2] = g[1] \o <<<<"header", 1>>>>
      BY <1>1, <2>6, <2>8
    <3>2. PICK h : h = <<"header", 1>>
      OBVIOUS
    <3>3. g[2] = <<h>> \o <<h>>
      BY <3>1, <3>2
    <3>4. g[2] \in Seq({h}) /\ Len(g[2]) = 2
      <4>1. <<h>> \in Seq({h}) /\ Len(<<h>>) = 1
        OBVIOUS
      <4>2. PICK s \in Seq({h}) : s = <<h>> /\ Len(s) = 1
        BY <4>1
      <4>3. s \o s \in Seq({h}) /\ Len(s \o s) = 2
        BY <4>2
      <4>4. QED
        BY <3>3, <4>2, <4>3
    <3>5. g[2] \in [1..2 -> {h}]
      BY <3>4, SMTT(30)
    <3>6. HeaderOf(lengths) \in [1..2 -> {h}]
      BY <1>3, <2>5, <2>8, <3>5
    <3>7. QED
      BY <2>8, <3>2, <3>6
  <2>9. QED
    BY <1>6, <2>7, <2>8
<1>7. QED
  BY <1>5, <1>6

\* The parts of a line stand in the order of their names.
LEMMA LineKeeps == CallLine => LinesParseBack'
<1> SUFFICES ASSUME CallLine PROVE LinesParseBack'
  OBVIOUS
<1>0. PICK lengths \in UNION {[1..n -> 1..MaxText] : n \in 0..2},
           message \in 0..MaxText, fields \in 0..MaxText :
        LET names == <<"time", "level">> \o [i \in DOMAIN lengths |-> "header"] \o <<"message">> IN
        /\ ltIn' = [names |-> names, lengths |-> lengths, message |-> message]
        /\ ltOut' = ParseLogLine(EncodeEntry(HeaderOf(lengths), Text("message", message),
                                             Text("field", 2 * fields)), names)
  BY DEF CallLine
<1>1. PICK n \in 0..2 : lengths \in [1..n -> 1..MaxText]
  OBVIOUS
<1>20. DOMAIN lengths = 1..n /\ n \in Nat /\ fields \in Nat
  <2>1. fields \in Nat
    BY LogTextAssumption
  <2>2. n \in Nat /\ DOMAIN lengths = 1..n
    BY <1>1
  <2>3. QED
    BY <2>1, <2>2
<1>2. PICK headers : headers = [i \in DOMAIN lengths |-> "header"]
  OBVIOUS
<1>3. PICK names : names = <<"time", "level">> \o headers \o <<"message">>
  OBVIOUS
<1>4. PICK parts : parts = EncodeEntry(HeaderOf(lengths), Text("message", message), Text("field", 2 * fields))
  OBVIOUS
<1>5. /\ ltIn'.names = names /\ ltIn'.lengths = lengths /\ ltIn'.message = message
      /\ ltOut' = ParseLogLine(parts, names)
  BY <1>0, <1>2, <1>3, <1>4
<1>6. SUFFICES ASSUME \A i \in DOMAIN lengths : lengths[i] = 1, message = 1
               PROVE  Len(ltOut') = Len(names) /\ \A i \in DOMAIN ltOut' : ltOut'[i][1] = names[i]
  BY <1>5 DEF LinesParseBack
<1>7. headers \in Seq({"header"}) /\ Len(headers) = n /\ \A i \in 1..n : headers[i] = "header"
  BY <1>2, <1>20
<1>8. /\ names \in Seq({"time", "level", "header", "message"}) /\ Len(names) = n + 3 /\ names # <<>>
      /\ names[1] = "time" /\ names[2] = "level" /\ names[n + 3] = "message"
      /\ \A i \in 1..n : names[2 + i] = "header"
  BY <1>3, <1>7
<1>9. PICK header : header = HeaderOf(lengths) /\ header \in [1..n -> {<<"header", 1>>}]
  <2>1. lengths = [i \in 1..n |-> lengths[i]] /\ \A i \in 1..n : lengths[i] = 1
    BY <1>6, <1>20
  <2>2. lengths \in [1..n -> {1}]
    BY <2>1
  <2>3. QED
    BY <2>2, HeaderOnes
<1>10. PICK Parts : Parts = {<<"time", 1>>, <<"level", 1>>, <<"header", 1>>, <<"message", 1>>, <<"rest", 1>>}
                            \cup {<<"field", i>> : i \in 1..(2 * fields)}
  OBVIOUS
<1>11. /\ Text("time", 1) = <<<<"time", 1>>>> /\ Text("level", 1) = <<<<"level", 1>>>>
       /\ Text("message", message) = <<<<"message", 1>>>>
  BY <1>6 DEF Text
<1>12. PICK field \in Seq(Parts) : field = Text("field", 2 * fields)
  <2>1. PICK m \in Nat : m = 2 * fields
    BY <1>20
  <2>2. \A i \in 1..m : <<"field", i>> \in Parts
    BY <1>10, <2>1
  <2>3. [i \in 1..m |-> <<"field", i>>] \in Seq(Parts)
    BY <2>2
  <2>4. QED
    BY <2>1, <2>3 DEF Text
<1>13. header \in Seq(Parts) /\ Len(header) = n /\ \A i \in 1..n : header[i] = <<"header", 1>>
  BY <1>9, <1>10
<1>14. PICK a, b, c, d \in Parts :
         a = <<"time", 1>> /\ b = <<"level", 1>> /\ c = <<"message", 1>> /\ d = <<"rest", 1>>
  BY <1>10
<1>15. parts = <<a>> \o <<b>> \o header \o <<c>> \o field \o <<d>>
  BY <1>4, <1>9, <1>11, <1>12, <1>14 DEF EncodeEntry
<1>16. /\ parts \in Seq(Parts) /\ Len(parts) >= n + 3
       /\ parts[1] = a /\ parts[2] = b /\ parts[n + 3] = c
       /\ \A i \in 1..n : parts[2 + i] = header[i]
  <2>0. /\ <<a>> \in Seq(Parts) /\ <<b>> \in Seq(Parts) /\ <<c>> \in Seq(Parts) /\ <<d>> \in Seq(Parts)
        /\ Len(<<a>>) = 1 /\ Len(<<b>>) = 1 /\ Len(<<c>>) = 1 /\ Len(<<d>>) = 1
        /\ <<a>>[1] = a /\ <<b>>[1] = b /\ <<c>>[1] = c
    OBVIOUS
  <2>1. PICK s : s = <<a>> \o <<b>>
    OBVIOUS
  <2>2. s \in Seq(Parts) /\ Len(s) = 2 /\ s[1] = a /\ s[2] = b
    BY <2>1
  <2>3. PICK t : t = s \o header
    OBVIOUS
  <2>4. /\ t \in Seq(Parts) /\ Len(t) = 2 + n /\ \A i \in 1..2 : t[i] = s[i]
        /\ \A i \in 1..n : t[2 + i] = header[i]
    <3>1. /\ t \in Seq(Parts) /\ Len(t) = Len(s) + Len(header) /\ \A i \in 1..Len(s) : t[i] = s[i]
          /\ \A i \in 1..Len(header) : t[Len(s) + i] = header[i]
      <4>1. s \in Seq(Parts) /\ header \in Seq(Parts)
        BY <1>13, <2>2
      <4>2. QED
        BY <2>3, <4>1, Joined
    <3>2. QED
      BY <1>13, <2>2, <3>1
  <2>5. PICK u : u = t \o <<c>>
    OBVIOUS
  <2>6. /\ u \in Seq(Parts) /\ Len(u) = (2 + n) + 1 /\ \A i \in 1..(2 + n) : u[i] = t[i]
        /\ \A i \in 1..1 : u[(2 + n) + i] = <<c>>[i]
    BY <2>0, <2>4, <2>5, Joined
  <2>7. PICK v : v = u \o field
    OBVIOUS
  <2>8. v \in Seq(Parts) /\ Len(v) = Len(u) + Len(field) /\ \A i \in 1..Len(u) : v[i] = u[i]
    BY <2>6, <2>7, Joined
  <2>9. parts = v \o <<d>>
    BY <1>15, <2>1, <2>3, <2>5, <2>7
  <2>10. parts \in Seq(Parts) /\ Len(parts) = Len(v) + 1 /\ \A i \in 1..Len(v) : parts[i] = v[i]
    BY <2>0, <2>8, <2>9, Joined
  <2>11. /\ n + 3 = (2 + n) + 1 /\ Len(u) = n + 3 /\ Len(v) \in Nat /\ Len(v) >= n + 3
         /\ 1..(n + 3) \subseteq 1..Len(v) /\ 1..(n + 3) \subseteq 1..Len(u)
    <3>1. Len(field) \in Nat
      OBVIOUS
    <3>2. QED
      BY <1>20, <2>6, <2>8, <3>1
  <2>12. \A i \in 1..(n + 3) : parts[i] = u[i]
    BY <2>8, <2>10, <2>11
  <2>13. u[1] = a /\ u[2] = b /\ u[n + 3] = c
    BY <1>20, <2>0, <2>2, <2>4, <2>6
  <2>14. \A i \in 1..n : u[2 + i] = header[i] /\ 2 + i \in 1..(n + 3)
    BY <1>20, <2>4, <2>6
  <2>15. 1 \in 1..(n + 3) /\ 2 \in 1..(n + 3) /\ n + 3 \in 1..(n + 3)
    BY <1>20
  <2>16. QED
    BY <2>10, <2>11, <2>12, <2>13, <2>14, <2>15
<1>17. ltOut' = [i \in 1..(n + 3) |-> parts[i]]
  BY <1>5, <1>8, <1>16 DEF ParseLogLine
<1>18. \A i \in 1..(n + 3) : parts[i][1] = names[i]
  <2>1. \A i \in 1..(n + 3) : i = 1 \/ i = 2 \/ i = n + 3 \/ (i - 2 \in 1..n /\ i = 2 + (i - 2))
    OBVIOUS
  <2>2. \A i \in 1..n : parts[2 + i][1] = names[2 + i]
    BY <1>8, <1>13, <1>16
  <2>3. parts[1][1] = names[1] /\ parts[2][1] = names[2] /\ parts[n + 3][1] = names[n + 3]
    BY <1>8, <1>14, <1>16
  <2>4. QED
    BY <2>1, <2>2, <2>3
<1>19. QED
  BY <1>8, <1>17, <1>18

LEMMA SplitKeeps == CallSplit => LinesInOneChunk'
<1> SUFFICES ASSUME CallSplit PROVE LinesInOneChunk'
  OBVIOUS
<1>1. PICK size \in Nat, n \in Nat \ {0} :
        \E data \in [1..size -> {"x", "\n"}] : ltIn' = data /\ ltOut' = SplitDataToChunks(data, n)
  BY LogTextAssumption DEF CallSplit
<1>2. PICK data \in Seq(Bytes) : ltIn' = data /\ ltOut' = SplitDataToChunks(data, n)
  BY <1>1 DEF Bytes
<1>3. \A a \in 0..Len(data), b \in 1..Len(data) : IsLine(data, a, b) =>
        \E i \in DOMAIN ltOut' :
          /\ ltOut'[i].start <= a /\ b <= ltOut'[i].end
          /\ \A j \in DOMAIN ltOut' \ {i} : ltOut'[j].end <= a \/ b <= ltOut'[j].start
  BY <1>2, LinesStayWhole
<1>4. QED
  BY <1>2, <1>3 DEF LinesInOneChunk

\* For any keys, any file and any number of chunks: a filtered key stays, a line
\* parses back, and no line is cut or in two chunks (core.go Write,
\* text_encoder.go EncodeEntry, text_query.go splitDataToChunks).
THEOREM LogDataSurvives == LogTextSpec => []LogDataKept
<1>1. LogTextInit => LogDataKept
  BY DEF LogTextInit, LogDataKept, FilteredStays, LinesParseBack, LinesInOneChunk
<1>2. LogDataKept /\ [LogTextNext]_logTextVars => LogDataKept'
  <2> SUFFICES ASSUME LogDataKept, [LogTextNext]_logTextVars PROVE LogDataKept'
    OBVIOUS
  <2>1. CASE CallWrite
    <3>1. ltCall' = "write" /\ FilteredStays'
      BY <2>1, WriteKeeps DEF CallWrite
    <3>2. QED
      BY <3>1 DEF LogDataKept, LinesParseBack, LinesInOneChunk
  <2>2. CASE CallLine
    <3>1. ltCall' = "line" /\ LinesParseBack'
      BY <2>2, LineKeeps DEF CallLine
    <3>2. QED
      BY <3>1 DEF LogDataKept, FilteredStays, LinesInOneChunk
  <2>3. CASE CallSplit
    <3>1. ltCall' = "split" /\ LinesInOneChunk'
      BY <2>3, SplitKeeps DEF CallSplit
    <3>2. QED
      BY <3>1 DEF LogDataKept, FilteredStays, LinesParseBack
  <2>4. CASE UNCHANGED logTextVars
    BY <2>4 DEF logTextVars, LogDataKept, FilteredStays, LinesParseBack, LinesInOneChunk, IsLine
  <2>5. QED
    BY <2>1, <2>2, <2>3, <2>4 DEF LogTextNext
<1>3. QED
  BY <1>1, <1>2, PTL DEF LogTextSpec

-----------------------------------------------------------------------------
(* SqlPages: pages one after the other are the listing.                    *)

\* How far the pages up to this one reach into a table of so many rows.
Reach(last, n) == IF last.index * last.size < n THEN last.index * last.size ELSE n

PagesIInv ==
  /\ sqRows \in Seq(Int) /\ sqNext \in Int /\ sqSeen \in Seq(Int)
  /\ sqPage \in [step : {"idle", "page"}, index : 0..MaxPages, size : 0..MaxPages, count : Int]
  /\ sqLast \in [index : 0..MaxPages, size : 0..MaxPages]
  /\ sqLast.size # 0 => /\ Len(sqSeen) = Reach(sqLast, Len(sqRows))
                        /\ \A i \in 1..Len(sqSeen) : sqSeen[i] = sqRows[i]
\* The rows from one place on, so many of them if there are.
LEMMA Selected ==
  ASSUME sqRows \in Seq(Int), NEW offset \in Nat, NEW limit \in Nat \ {0}
  PROVE  LET rows == Select(offset, limit)
             n == Len(sqRows)
         IN  /\ rows \in Seq(Int)
             /\ Len(rows) = IF offset >= n THEN 0 ELSE IF offset + limit < n THEN limit ELSE n - offset
             /\ \A i \in 1..Len(rows) : rows[i] = sqRows[offset + i]
<1>1. PICK s \in Seq(Int) : s = sqRows
  OBVIOUS
<1>2. PICK n \in Nat : n = Len(s)
  OBVIOUS
<1>3. PICK to \in Nat : to = IF limit # 0 /\ offset + limit < n THEN offset + limit ELSE n
  <2>1. offset + limit \in Nat
    OBVIOUS
  <2>2. QED
    BY <1>2, <2>1
<1>4. PICK rows : rows = SubSeq(s, offset + 1, to)
  OBVIOUS
<1>5. Select(offset, limit) = rows
  BY <1>1, <1>2, <1>3, <1>4 DEF Select
<1>6. rows \in Seq(Int) /\ Len(rows) = (IF offset + 1 <= to THEN to - offset ELSE 0)
      /\ \A i \in 1..Len(rows) : rows[i] = s[offset + i]
  BY <1>2, <1>3, <1>4
<1>7. Len(rows) = IF offset >= n THEN 0 ELSE IF offset + limit < n THEN limit ELSE n - offset
  BY <1>2, <1>3, <1>6
<1>8. n = Len(sqRows) /\ \A i \in 1..Len(rows) : rows[i] = sqRows[offset + i]
  BY <1>1, <1>2, <1>6
<1>9. QED
  BY <1>5, <1>6, <1>7, <1>8

LEMMA TimesNext ==
  ASSUME NEW k \in Nat, NEW m \in Nat
  PROVE  k * m \in Nat /\ (k + 1) * m = k * m + m
OBVIOUS

LEMMA TimesGrows ==
  ASSUME NEW a \in Nat, NEW b \in Nat, NEW c \in Nat, a <= c, b <= c
  PROVE  a * b <= c * c
OBVIOUS

\* The page after those already read, and the first page.
LEMMA ReadKeeps == PagesIInv /\ ReadPage => PagesIInv'
<1> SUFFICES ASSUME PagesIInv, ReadPage PROVE PagesIInv'
  OBVIOUS
<1>0. /\ sqRows \in Seq(Int) /\ sqNext \in Int /\ sqSeen \in Seq(Int)
      /\ sqPage \in [step : {"idle", "page"}, index : 0..MaxPages, size : 0..MaxPages, count : Int]
      /\ sqLast \in [index : 0..MaxPages, size : 0..MaxPages]
      /\ sqLast.size # 0 => /\ Len(sqSeen) = Reach(sqLast, Len(sqRows))
                            /\ \A i \in 1..Len(sqSeen) : sqSeen[i] = sqRows[i]
  BY DEF PagesIInv
<1>1. PICK k \in 0..MaxPages, m \in 0..MaxPages : k = sqPage.index /\ m = sqPage.size
  BY <1>0
<1>2. /\ k \in Nat /\ m \in Nat /\ MaxPages \in Nat
      /\ sqPage' = NoPage /\ UNCHANGED <<sqRows, sqNext, openVars>>
  BY SqlPagesAssumption DEF ReadPage, Running
<1>3. PICK rows : rows = Select(Offset(k, m), m)
  OBVIOUS
<1>4. CASE k # 1 /\ ~(sqLast.index # 0 /\ sqLast = [index |-> k - 1, size |-> m])
  <2>1. UNCHANGED <<sqSeen, sqLast>>
    BY <1>1, <1>4 DEF ReadPage
  <2>2. QED
    BY <1>2, <2>1 DEF openVars, NoPage, Reach, PagesIInv
<1>5. CASE k = 1 \/ (k # 1 /\ sqLast.index # 0 /\ sqLast = [index |-> k - 1, size |-> m])
  <2>1. k # 0 /\ sqLast' = [index |-> k, size |-> m]
        /\ sqSeen' = IF k = 1 THEN rows ELSE sqSeen \o rows
    <3>1. k # 0
      BY <1>0, <1>5
    <3>2. CASE k = 1
      BY <1>1, <1>3, <3>1, <3>2 DEF ReadPage
    <3>3. CASE k # 1
      BY <1>1, <1>3, <1>5, <3>1, <3>3 DEF ReadPage
    <3>4. QED
      BY <3>2, <3>3
  <2>2. sqSeen' \in Seq(Int) /\ (m # 0 => /\ Len(sqSeen') = Reach(sqLast', Len(sqRows))
                                          /\ \A i \in 1..Len(sqSeen') : sqSeen'[i] = sqRows[i])
    <3>1. CASE m = 0
      <4>1. Offset(k, m) = 0
        <5>1. (k - 1) * m = 0 /\ 0 % WordSize = 0
          BY <1>2, <3>1, SqlPagesAssumption
        <5>2. QED
          BY <5>1 DEF Offset
      <4>2. PICK s \in Seq(Int) : s = sqRows
        BY <1>0
      <4>3. rows = SubSeq(s, 1, Len(s))
        BY <1>3, <3>1, <4>1, <4>2 DEF Select
      <4>4. rows \in Seq(Int)
        BY <4>3
      <4>5. sqSeen \o rows \in Seq(Int)
        BY <1>0, <4>4, Joined
      <4>6. QED
        BY <2>1, <3>1, <4>4, <4>5
    <3>2. CASE m # 0
      <4>1. PICK read \in Nat : read = (k - 1) * m /\ Offset(k, m) = read /\ k * m = read + m
        <5>1. PICK j \in Nat : j = k - 1 /\ j <= MaxPages /\ k = j + 1
          BY <1>2, <2>1
        <5>2. j * m \in Nat /\ k * m = j * m + m
          BY <1>2, <5>1, TimesNext
        <5>3. PICK read \in Nat : read = j * m
          BY <5>2
        <5>4. read < WordSize
          <6>1. m <= MaxPages /\ m \in Nat
            BY <1>2
          <6>2. j * m <= MaxPages * MaxPages
            BY <1>2, <5>1, <6>1, TimesGrows
          <6>3. PICK most \in Int : most = MaxPages * MaxPages
            BY <1>2
          <6>4. QED
            BY <5>3, <6>2, <6>3, OffsetsFit, SqlPagesAssumption
        <5>5. read % WordSize = read
          BY <5>4, SqlPagesAssumption
        <5>6. QED
          BY <5>1, <5>2, <5>3, <5>5 DEF Offset
      <4>2. PICK n \in Nat : n = Len(sqRows)
        BY <1>0
      <4>3. /\ rows \in Seq(Int)
            /\ Len(rows) = IF read >= n THEN 0 ELSE IF read + m < n THEN m ELSE n - read
            /\ \A i \in 1..Len(rows) : rows[i] = sqRows[read + i]
        <5>1. m \in Nat \ {0} /\ rows = Select(read, m)
          BY <1>2, <1>3, <3>2, <4>1
        <5>2. /\ Select(read, m) \in Seq(Int)
              /\ Len(Select(read, m)) = IF read >= Len(sqRows) THEN 0
                                        ELSE IF read + m < Len(sqRows) THEN m ELSE Len(sqRows) - read
              /\ \A i \in 1..Len(Select(read, m)) : Select(read, m)[i] = sqRows[read + i]
          BY <1>0, <5>1, Selected
        <5>3. QED
          BY <4>2, <5>1, <5>2
      <4>4. Reach(sqLast', Len(sqRows)) = IF read + m < n THEN read + m ELSE n
        BY <2>1, <4>1, <4>2 DEF Reach
      <4>5. CASE k = 1
        <5>1. read = 0 /\ sqSeen' = rows
          BY <1>2, <2>1, <4>1, <4>5
        <5>2. QED
          <6>1. Len(rows) = IF m < n THEN m ELSE n
            BY <1>2, <4>2, <4>3, <5>1
          <6>2. \A i \in 1..Len(rows) : 0 + i = i
            BY <6>1, <1>2
          <6>3. QED
            BY <1>2, <4>3, <4>4, <5>1, <6>1, <6>2
      <4>6. CASE k # 1
        <5>1. sqSeen' = sqSeen \o rows /\ sqLast.index = k - 1 /\ sqLast.size = m
          BY <1>5, <2>1, <4>6
        <5>2. PICK seen \in Seq(Int) : seen = sqSeen
          BY <1>0
        <5>3. /\ Len(seen) = IF read < n THEN read ELSE n
              /\ \A i \in 1..Len(seen) : seen[i] = sqRows[i]
          BY <1>0, <3>2, <4>1, <4>2, <5>1, <5>2 DEF Reach
        <5>4. PICK all : all = seen \o rows
          OBVIOUS
        <5>5. /\ all \in Seq(Int) /\ Len(all) = Len(seen) + Len(rows)
              /\ \A i \in 1..Len(seen) : all[i] = seen[i]
              /\ \A i \in 1..Len(rows) : all[Len(seen) + i] = rows[i]
          <6>1. rows \in Seq(Int)
            BY <4>3
          <6>2. /\ seen \o rows \in Seq(Int) /\ Len(seen \o rows) = Len(seen) + Len(rows)
                /\ \A i \in 1..Len(seen) : (seen \o rows)[i] = seen[i]
                /\ \A i \in 1..Len(rows) : (seen \o rows)[Len(seen) + i] = rows[i]
            BY <6>1, Joined
          <6>3. QED
            BY <5>4, <6>2
        <5>6. PICK a \in Nat, b \in Nat : a = Len(seen) /\ b = Len(rows)
          <6>1. rows \in Seq(Int)
            BY <4>3
          <6>2. Len(seen) \in Nat /\ Len(rows) \in Nat
            BY <6>1
          <6>3. QED
            BY <6>2
        <5>7. Len(all) = IF read + m < n THEN read + m ELSE n
          <6>1. Len(all) = a + b
            BY <5>5, <5>6
          <6>2. a = IF read < n THEN read ELSE n
            BY <5>3, <5>6
          <6>3. b = IF read >= n THEN 0 ELSE IF read + m < n THEN m ELSE n - read
            BY <4>3, <5>6
          <6>4. QED
            BY <1>2, <6>1, <6>2, <6>3
        <5>8. ASSUME NEW i \in 1..Len(all) PROVE all[i] = sqRows[i]
          <6>1. CASE i <= a
            BY <5>3, <5>5, <5>6, <6>1
          <6>2. CASE i > a
            <7>1. PICK j \in 1..b : i = a + j
              <8>1. Len(all) = a + b /\ i - a \in 1..b /\ i = a + (i - a)
                BY <5>5, <5>6, <6>2
              <8>2. QED
                BY <8>1
            <7>2. a = read
              <8>1. b # 0
                BY <7>1
              <8>2. read < n
                BY <4>3, <5>6, <8>1
              <8>3. QED
                BY <5>3, <5>6, <8>2
            <7>3. all[i] = rows[j] /\ rows[j] = sqRows[read + j]
              BY <4>3, <5>5, <5>6, <7>1
            <7>4. QED
              BY <7>1, <7>2, <7>3
          <6>3. QED
            BY <5>6, <6>1, <6>2
        <5>9. QED
          BY <4>4, <5>1, <5>2, <5>4, <5>5, <5>7, <5>8
      <4>7. QED
        BY <4>5, <4>6
    <3>3. QED
      BY <3>1, <3>2
  <2>3. sqLast' \in [index : 0..MaxPages, size : 0..MaxPages] /\ sqLast'.size = m
    BY <2>1
  <2>4. sqPage' \in [step : {"idle", "page"}, index : 0..MaxPages, size : 0..MaxPages, count : Int]
    BY <1>2 DEF NoPage
  <2>5. UNCHANGED <<sqRows, sqNext, dbOpened, dbPool>>
    BY <1>2 DEF openVars
  <2>6. QED
    BY <1>0, <2>2, <2>3, <2>4, <2>5 DEF PagesIInv
<1>6. QED
  BY <1>4, <1>5

LEMMA CutTyped ==
  ASSUME NEW s \in Seq(Int), NEW place \in 1..(Len(s) + 1), NEW x \in Int
  PROVE  /\ InsertAt(s, place, x) \in Seq(Int)
         /\ RemoveAt(s, place) \in Seq(Int)
<1>1. Len(s) \in Nat
  OBVIOUS
<1>2. SubSeq(s, 1, place - 1) \in Seq(Int) /\ SubSeq(s, place, Len(s)) \in Seq(Int)
  BY <1>1
<1>3. SubSeq(s, place + 1, Len(s)) \in Seq(Int) /\ <<x>> \in Seq(Int)
  BY <1>1
<1>4. QED
  BY <1>2, <1>3 DEF InsertAt, RemoveAt

\* Insert and remove, and what stays in front of the place.
LEMMA CutLength ==
  ASSUME NEW s \in Seq(Int), NEW place \in 1..(Len(s) + 1), NEW x \in Int
  PROVE  /\ Len(InsertAt(s, place, x)) = Len(s) + 1
         /\ place <= Len(s) => Len(RemoveAt(s, place)) = Len(s) - 1
         /\ \A i \in 1..(place - 1) : InsertAt(s, place, x)[i] = s[i]
         /\ place <= Len(s) => \A i \in 1..(place - 1) : RemoveAt(s, place)[i] = s[i]
<1>1. PICK n \in Nat : n = Len(s)
  OBVIOUS
<1>2. ASSUME NEW a \in 1..(n + 1), NEW b \in 0..n, a <= b + 1
      PROVE  SubSeq(s, a, b) \in Seq(Int) /\ Len(SubSeq(s, a, b)) = b - a + 1
  <2>1. \A i \in a..b : s[i] \in Int
    BY <1>1
  <2>2. a \in Int /\ b \in Int
    OBVIOUS
  <2>3. SubSeq(s, a, b) \in Seq(Int) /\ Len(SubSeq(s, a, b)) = IF a <= b THEN b - a + 1 ELSE 0
    BY <2>1, <2>2, SubSeqProperties
  <2>4. QED
    BY <1>2, <2>2, <2>3
<1>3. PICK before \in Seq(Int) : before = SubSeq(s, 1, place - 1) /\ Len(before) = place - 1
  <2>1. 1 \in 1..(n + 1) /\ place - 1 \in 0..n /\ 1 <= (place - 1) + 1 /\ (place - 1) - 1 + 1 = place - 1
    BY <1>1
  <2>2. QED
    BY <1>2, <2>1
<1>4. PICK rest \in Seq(Int) : rest = SubSeq(s, place, n) /\ Len(rest) = n - place + 1
  <2>1. place \in 1..(n + 1) /\ n \in 0..n /\ place <= n + 1
    BY <1>1
  <2>2. QED
    BY <1>2, <2>1
<1>5. <<x>> \in Seq(Int) /\ Len(<<x>>) = 1
  OBVIOUS
<1>6. Len(before \o <<x>> \o rest) = n + 1
  <2>1. before \o <<x>> \in Seq(Int) /\ Len(before \o <<x>>) = place
    BY <1>1, <1>3, <1>5, ConcatProperties
  <2>2. PICK mid \in Seq(Int) : mid = before \o <<x>> /\ Len(mid) = place
    BY <2>1, Zenon
  <2>3. Len(mid \o rest) = Len(mid) + Len(rest)
    BY ConcatProperties
  <2>4. Len(mid \o rest) = n + 1
    <3>1. \A p \in Int : p + (n - p + 1) = n + 1
      OBVIOUS
    <3>2. place \in Int
      BY <1>1
    <3>3. Len(mid \o rest) = place + (n - place + 1)
      BY <1>4, <2>2, <2>3, Zenon
    <3>4. QED
      BY <3>1, <3>2, <3>3, Zenon
  <2>5. QED
    BY <2>2, <2>4, Zenon
<1>7. Len(InsertAt(s, place, x)) = n + 1
  BY <1>1, <1>3, <1>4, <1>6, Zenon DEF InsertAt
<1>8. ASSUME place <= n PROVE Len(RemoveAt(s, place)) = n - 1
  <2>1. PICK after \in Seq(Int) : after = SubSeq(s, place + 1, n) /\ Len(after) = n - place
    <3>1. place + 1 \in 1..(n + 1) /\ n \in 0..n /\ place + 1 <= n + 1 /\ n - (place + 1) + 1 = n - place
      BY <1>1, <1>8
    <3>2. QED
      BY <1>2, <3>1
  <2>2. Len(before \o after) = (place - 1) + (n - place)
    BY <1>3, <2>1, ConcatProperties
  <2>3. Len(before \o after) = n - 1
    BY <1>1, <2>2
  <2>4. QED
    BY <1>1, <1>3, <2>1, <2>3, Zenon DEF RemoveAt
<1>9. \A i \in 1..(place - 1) : before[i] = s[i]
  <2>1. /\ s \in Seq(Int) /\ 1 \in Int /\ place - 1 \in Int
        /\ \A i \in 1..(place - 1) : s[i] \in Int
    BY <1>1
  <2>2. \A i \in 1..((place - 1) - 1 + 1) : SubSeq(s, 1, place - 1)[i] = s[1 + i - 1]
    <3>1. CASE 1 <= place - 1
      BY <2>1, <3>1, SubSeqProperties
    <3>2. CASE ~(1 <= place - 1)
      BY <2>1, <3>2
    <3>3. QED
      BY <3>1, <3>2
  <2>3. QED
    BY <1>3, <2>1, <2>2
<1>10. ASSUME NEW i \in 1..(place - 1) PROVE InsertAt(s, place, x)[i] = s[i]
  <2>1. i \in 1..Len(before) /\ Len(before) \in Nat
    BY <1>3, <1>10
  <2>2. (before \o <<x>>)[i] = before[i] /\ before \o <<x>> \in Seq(Int)
        /\ i \in 1..Len(before \o <<x>>)
    BY <1>5, <2>1, ConcatProperties
  <2>3. PICK mid \in Seq(Int) : mid = before \o <<x>>
    BY <2>2
  <2>4. (mid \o rest)[i] = mid[i]
    BY <1>4, <2>2, <2>3, ConcatProperties
  <2>5. InsertAt(s, place, x) = mid \o rest
    BY <1>1, <1>3, <1>4, <2>3, Zenon DEF InsertAt
  <2>6. QED
    BY <1>9, <1>10, <2>2, <2>3, <2>4, <2>5
<1>11. ASSUME place <= n, NEW i \in 1..(place - 1) PROVE RemoveAt(s, place)[i] = s[i]
  <2>1. PICK after \in Seq(Int) : after = SubSeq(s, place + 1, n)
    <3>1. place + 1 \in 1..(n + 1) /\ n \in 0..n /\ place + 1 <= n + 1
      BY <1>1, <1>11
    <3>2. QED
      BY <1>2, <3>1
  <2>2. i \in 1..Len(before) /\ Len(before) \in Nat
    BY <1>3, <1>11
  <2>3. (before \o after)[i] = before[i]
    BY <2>1, <2>2, ConcatProperties
  <2>4. RemoveAt(s, place) = before \o after
    BY <1>1, <1>3, <2>1, Zenon DEF RemoveAt
  <2>5. QED
    BY <1>9, <1>11, <2>3, <2>4
<1>12. QED
  BY <1>1, <1>7, <1>8, <1>10, <1>11

LEMMA PagesKeep == PagesIInv /\ [SqlPagesNext]_<<openVars, pageVars>> => PagesIInv'
<1> SUFFICES ASSUME PagesIInv, [SqlPagesNext]_<<openVars, pageVars>> PROVE PagesIInv'
  OBVIOUS
<1>1. ASSUME NEW dialect, NEW given, NEW fault, Open(dialect, given, fault) PROVE PagesIInv'
  <2>1. UNCHANGED pageVars
    BY <1>1 DEF Open
  <2>2. QED
    BY <2>1 DEF PagesIInv, Reach, pageVars
\* Other clients change the table from a place on.
<1>2. ASSUME NEW rows \in Seq(Int), NEW place \in Int, Changed(rows, place), sqNext' \in Int,
             UNCHANGED sqPage,
             \A i \in 1..(place - 1) : rows[i] = sqRows[i], Len(rows) >= place - 1
      PROVE  PagesIInv'
  <2>1. sqRows' = rows /\ sqRows' \in Seq(Int) /\ Len(sqSeen) \in Nat /\ Len(rows) \in Nat
    BY <1>2 DEF Changed, PagesIInv
  <2>2. CASE place > Len(sqSeen) /\ Len(sqSeen) = sqLast.index * sqLast.size
    <3>1. sqSeen' = sqSeen /\ sqLast' = sqLast
      BY <1>2, <2>2 DEF Changed
    <3>2. ASSUME sqLast.size # 0 PROVE \A i \in 1..Len(sqSeen) : sqSeen[i] = rows[i]
      <4>1. ASSUME NEW i \in 1..Len(sqSeen) PROVE sqSeen[i] = rows[i]
        <5>1. i \in 1..(place - 1)
          BY <2>1, <2>2
        <5>2. sqSeen[i] = sqRows[i]
          BY <3>2 DEF PagesIInv
        <5>3. QED
          BY <1>2, <5>1, <5>2
      <4>2. QED
        BY <4>1
    <3>3. Len(sqSeen) <= Len(rows)
      BY <1>2, <2>1, <2>2
    <3>4. Len(sqSeen) = Reach(sqLast, Len(rows))
      BY <2>1, <2>2, <3>3 DEF Reach
    <3>5. QED
      BY <1>2, <2>1, <3>1, <3>2, <3>4 DEF PagesIInv
  <2>3. CASE ~(place > Len(sqSeen) /\ Len(sqSeen) = sqLast.index * sqLast.size)
    <3>1. sqLast' \in [index : 0..MaxPages, size : 0..MaxPages] /\ sqLast'.size = 0
          /\ sqSeen' \in Seq(Int)
      <4>1. sqSeen' = <<>> /\ sqLast' = [index |-> 0, size |-> 0]
        BY <1>2, <2>3 DEF Changed
      <4>2. 0 \in 0..MaxPages
        BY SqlPagesAssumption
      <4>3. QED
        BY <4>1, <4>2
    <3>2. QED
      BY <1>2, <2>1, <3>1 DEF PagesIInv
  <2>4. QED
    BY <2>2, <2>3
<1>3. CASE InsertRow
  <2>1. PICK place \in 1..(Len(sqRows) + 1) : Changed(InsertAt(sqRows, place, sqNext), place)
    BY <1>3 DEF InsertRow
  <2>2. sqRows \in Seq(Int) /\ sqNext \in Int /\ Len(sqRows) \in Nat
    BY DEF PagesIInv
  <2>3. PICK rows \in Seq(Int) : rows = InsertAt(sqRows, place, sqNext)
    BY <2>1, <2>2, CutTyped
  <2>4. Len(rows) = Len(sqRows) + 1 /\ \A i \in 1..(place - 1) : rows[i] = sqRows[i]
    BY <2>1, <2>2, <2>3, CutLength
  <2>5. Len(rows) >= place - 1 /\ place \in Int
    BY <2>1, <2>2, <2>4
  <2>6. sqNext' \in Int /\ UNCHANGED sqPage
    BY <1>3, <2>2 DEF InsertRow
  <2>7. QED
    BY <1>2, <2>1, <2>3, <2>4, <2>5, <2>6
<1>4. CASE DeleteRow
  <2>1. PICK place \in DOMAIN sqRows : Changed(RemoveAt(sqRows, place), place)
    BY <1>4 DEF DeleteRow
  <2>2. sqRows \in Seq(Int) /\ sqNext \in Int /\ Len(sqRows) \in Nat
    BY DEF PagesIInv
  <2>3. place \in 1..(Len(sqRows) + 1) /\ place <= Len(sqRows)
    BY <2>1, <2>2
  <2>4. PICK rows \in Seq(Int) : rows = RemoveAt(sqRows, place)
    BY <2>2, <2>3, CutTyped
  <2>5. Len(rows) = Len(sqRows) - 1 /\ \A i \in 1..(place - 1) : rows[i] = sqRows[i]
    BY <2>2, <2>3, <2>4, CutLength
  <2>6. Len(rows) >= place - 1 /\ place \in Int
    BY <2>2, <2>3, <2>5
  <2>7. sqNext' \in Int /\ UNCHANGED sqPage
    BY <1>4, <2>2 DEF DeleteRow
  <2>8. QED
    BY <1>2, <2>1, <2>4, <2>5, <2>6, <2>7
<1>5. ASSUME NEW index \in 0..MaxPages, NEW size \in 0..MaxPages,
             PageQuery(index, size) \/ PageQueryWithExplain(index, size)
      PROVE  PagesIInv'
  <2>1. \A count \in QueryCount \cup QueryCountWithExplain : count \in Int
    BY SqlPagesAssumption DEF QueryCount, QueryCountWithExplain, PagesIInv
  <2>2. PICK count \in Int : sqPage' = [step |-> "page", index |-> index, size |-> size, count |-> count]
    BY <1>5, <2>1 DEF PageQuery, PageQueryWithExplain, BeginPage
  <2>3. UNCHANGED <<sqRows, sqNext, sqSeen, sqLast>>
    BY <1>5 DEF PageQuery, PageQueryWithExplain, BeginPage
  <2>4. QED
    BY <2>2, <2>3 DEF PagesIInv, Reach
<1>6. CASE PageFails
  BY <1>6, SqlPagesAssumption DEF PageFails, Running, openVars, NoPage, PagesIInv, Reach
<1>7. CASE Query
  BY <1>7 DEF Query, Running, openVars, PagesIInv, Reach
<1>8. CASE UNCHANGED <<openVars, pageVars>>
  BY <1>8 DEF openVars, pageVars, PagesIInv, Reach
<1>9. QED
  BY <1>1, <1>3, <1>4, <1>5, <1>6, <1>7, <1>8, ReadKeeps DEF SqlPagesNext

\* What was seen is a prefix of the table.
LEMMA PagesIInvSuffices == PagesIInv => PagesPartition
<1> SUFFICES ASSUME PagesIInv PROVE PagesPartition
  BY DEF PagesIInv
<1>1. SUFFICES ASSUME sqLast.size # 0
               PROVE  /\ IsPrefix(sqSeen, sqRows) /\ Len(sqSeen) = Reach(sqLast, Len(sqRows))
  BY DEF PagesPartition, Reach
<1>2. /\ sqRows \in Seq(Int) /\ sqSeen \in Seq(Int)
      /\ sqLast \in [index : 0..MaxPages, size : 0..MaxPages]
      /\ Len(sqSeen) = Reach(sqLast, Len(sqRows))
      /\ \A i \in 1..Len(sqSeen) : sqSeen[i] = sqRows[i]
  BY <1>1 DEF PagesIInv
<1>3. PICK n \in Nat, k \in Nat : n = Len(sqRows) /\ k = Len(sqSeen)
  BY <1>2
<1>4. k <= n
  <2>1. PICK r \in Nat : r = sqLast.index * sqLast.size
    BY <1>2, SqlPagesAssumption
  <2>2. QED
    BY <1>2, <1>3, <2>1 DEF Reach
<1>5. SubSeq(sqSeen, 1, k) = SubSeq(sqRows, 1, k)
  <2>1. SubSeq(sqSeen, 1, k) = [i \in 1..k |-> sqSeen[i]] /\ SubSeq(sqRows, 1, k) = [i \in 1..k |-> sqRows[i]]
    BY <1>2, <1>3, <1>4
  <2>2. QED
    BY <1>2, <1>3, <2>1
<1>6. QED
  BY <1>2, <1>3, <1>4, <1>5 DEF IsPrefix

-----------------------------------------------------------------------------
(* SqlFilter: the maps hold what was asked for.                            *)

FilterConds == [op : QueryOps \cup {"none"}, value : Conditions \cup {Absent}]
FilterCalls == [kind : {"where", "or", "with", "update"}, field : Fields, op : QueryOps, key : ConditionKeys]

\* A map of one condition for each field holds those the calls of a kind asked for.
MapHolds(calls, asked, map, kinds) ==
  /\ \A i \in 1..Len(calls) : calls[i].kind \in kinds /\ asked[i] # None => map[calls[i].field] = asked[i]
  /\ \A f \in Fields : map[f] # None =>
       \E i \in 1..Len(calls) : calls[i].kind \in kinds /\ calls[i].field = f /\ asked[i] = map[f]
ListHolds(calls, asked, exps) ==
  /\ \A i \in 1..Len(calls) : calls[i].kind = "with" /\ asked[i] # None =>
       \E j \in 1..Len(exps) : exps[j].field = calls[i].field /\ exps[j].cond = asked[i]
  /\ \A j \in 1..Len(exps) : \E i \in 1..Len(calls) :
       /\ calls[i].kind = "with" /\ asked[i] # None
       /\ exps[j].field = calls[i].field /\ exps[j].cond = asked[i]

AskedFor == [i \in 1..Len(flCalls) |-> FilterAsked(flCalls[i])]
FilterIInv ==
  /\ flRequest \in [ConditionKeys -> Conditions \cup {Absent}]
  /\ flEx \in [Fields -> FilterConds] /\ flOr \in [Fields -> FilterConds]
  /\ flExps \in Seq([field : Fields, cond : FilterConds]) /\ flCalls \in Seq(FilterCalls)
  /\ ~Overwrites => /\ MapHolds(flCalls, AskedFor, flEx, {"where", "update"})
                    /\ MapHolds(flCalls, AskedFor, flOr, {"or"})
                    /\ ListHolds(flCalls, AskedFor, flExps)

\* One more call, and what it asked for.
CallAdded(calls, asked, n, newCalls, newAsked, c, e) ==
  /\ n \in Nat /\ Len(calls) = n /\ Len(newCalls) = n + 1 /\ c \in FilterCalls
  /\ newCalls[n + 1] = c /\ newAsked[n + 1] = e
  /\ \A i \in 1..n : calls[i] \in FilterCalls /\ newCalls[i] = calls[i] /\ newAsked[i] = asked[i]

\* A call of another kind, or without a condition, leaves a map as it was.
LEMMA MapStays ==
  ASSUME NEW calls, NEW asked, NEW n, NEW newCalls, NEW newAsked, NEW c, NEW e,
         CallAdded(calls, asked, n, newCalls, newAsked, c, e),
         NEW map, NEW kinds, MapHolds(calls, asked, map, kinds), c.kind \notin kinds \/ e = None
  PROVE  MapHolds(newCalls, newAsked, map, kinds)
<1>1. \A i \in 1..(n + 1) : i \in 1..n \/ i = n + 1
  BY DEF CallAdded
<1>2. \A i \in 1..n : i \in 1..(n + 1)
  BY DEF CallAdded
<1>3. QED
  BY <1>1, <1>2 DEF MapHolds, CallAdded

\* A call puts its condition into the map, over none of an earlier call.
LEMMA MapPut ==
  ASSUME NEW calls, NEW asked, NEW n, NEW newCalls, NEW newAsked, NEW c, NEW e \in FilterConds,
         CallAdded(calls, asked, n, newCalls, newAsked, c, e),
         NEW map \in [Fields -> FilterConds], NEW kinds, MapHolds(calls, asked, map, kinds),
         c.kind \in kinds, \A i \in 1..n : calls[i].kind \in kinds => calls[i].field # c.field
  PROVE  MapHolds(newCalls, newAsked, [map EXCEPT ![c.field] = e], kinds)
<1>1. PICK new : new = [map EXCEPT ![c.field] = e]
  OBVIOUS
<1>2. \A f \in Fields : new[f] = IF f = c.field THEN e ELSE map[f]
  BY <1>1
<1>3. n \in Nat /\ c.field \in Fields /\ \A i \in 1..n : calls[i].field \in Fields
  BY DEF CallAdded, FilterCalls
<1>4. (\A i \in 1..(n + 1) : i \in 1..n \/ i = n + 1) /\ (\A i \in 1..n : i \in 1..(n + 1)) /\ n + 1 \in 1..(n + 1)
  BY <1>3
<1>5. /\ \A i \in 1..n : calls[i].kind \in kinds /\ asked[i] # None => map[calls[i].field] = asked[i]
      /\ \A f \in Fields : map[f] # None =>
           \E i \in 1..n : calls[i].kind \in kinds /\ calls[i].field = f /\ asked[i] = map[f]
  BY DEF MapHolds, CallAdded
<1>6. /\ newCalls[n + 1] = c /\ newAsked[n + 1] = e
      /\ \A i \in 1..n : newCalls[i] = calls[i] /\ newAsked[i] = asked[i]
  BY DEF CallAdded
<1>7. \A i \in 1..(n + 1) :
        newCalls[i].kind \in kinds /\ newAsked[i] # None => new[newCalls[i].field] = newAsked[i]
  BY <1>2, <1>3, <1>4, <1>5, <1>6
<1>8. ASSUME NEW f \in Fields, new[f] # None
      PROVE  \E i \in 1..(n + 1) : newCalls[i].kind \in kinds /\ newCalls[i].field = f /\ newAsked[i] = new[f]
  <2>1. CASE f = c.field
    BY <1>2, <1>4, <1>6, <2>1
  <2>2. CASE f # c.field
    <3>1. PICK i \in 1..n : calls[i].kind \in kinds /\ calls[i].field = f /\ asked[i] = map[f]
      BY <1>2, <1>5, <1>8, <2>2
    <3>2. QED
      BY <1>2, <1>4, <1>6, <2>2, <3>1
  <2>3. QED
    BY <2>1, <2>2
<1>9. Len(newCalls) = n + 1
  BY DEF CallAdded
<1>10. QED
  BY <1>1, <1>7, <1>8, <1>9 DEF MapHolds

LEMMA ListStays ==
  ASSUME NEW calls, NEW asked, NEW n, NEW newCalls, NEW newAsked, NEW c, NEW e,
         CallAdded(calls, asked, n, newCalls, newAsked, c, e),
         NEW exps, ListHolds(calls, asked, exps), c.kind # "with" \/ e = None
  PROVE  ListHolds(newCalls, newAsked, exps)
<1>1. \A i \in 1..(n + 1) : i \in 1..n \/ i = n + 1
  BY DEF CallAdded
<1>2. \A i \in 1..n : i \in 1..(n + 1)
  BY DEF CallAdded
<1>3. /\ \A i \in 1..n : calls[i].kind = "with" /\ asked[i] # None =>
           \E j \in 1..Len(exps) : exps[j].field = calls[i].field /\ exps[j].cond = asked[i]
      /\ \A j \in 1..Len(exps) : \E i \in 1..n :
           /\ calls[i].kind = "with" /\ asked[i] # None
           /\ exps[j].field = calls[i].field /\ exps[j].cond = asked[i]
  BY DEF ListHolds, CallAdded
<1>4. /\ newCalls[n + 1] = c /\ newAsked[n + 1] = e /\ Len(newCalls) = n + 1
      /\ \A i \in 1..n : newCalls[i] = calls[i] /\ newAsked[i] = asked[i]
  BY DEF CallAdded
<1>5. ASSUME NEW i \in 1..(n + 1), newCalls[i].kind = "with", newAsked[i] # None
      PROVE  \E j \in 1..Len(exps) : exps[j].field = newCalls[i].field /\ exps[j].cond = newAsked[i]
  <2>1. i \in 1..n
    BY <1>1, <1>4, <1>5
  <2>2. calls[i].kind = "with" /\ asked[i] # None /\ newCalls[i] = calls[i] /\ newAsked[i] = asked[i]
    BY <1>4, <1>5, <2>1
  <2>3. QED
    BY <1>3, <2>1, <2>2
<1>6. ASSUME NEW j \in 1..Len(exps)
      PROVE  \E i \in 1..(n + 1) : /\ newCalls[i].kind = "with" /\ newAsked[i] # None
                                   /\ exps[j].field = newCalls[i].field /\ exps[j].cond = newAsked[i]
  <2>1. PICK i \in 1..n : /\ calls[i].kind = "with" /\ asked[i] # None
                          /\ exps[j].field = calls[i].field /\ exps[j].cond = asked[i]
    BY <1>3
  <2>2. newCalls[i] = calls[i] /\ newAsked[i] = asked[i] /\ i \in 1..(n + 1)
    BY <1>2, <1>4
  <2>3. QED
    BY <2>1, <2>2
<1>7. QED
  BY <1>4, <1>5, <1>6 DEF ListHolds

\* With adds its condition to the list.
LEMMA ListPut ==
  ASSUME NEW calls, NEW asked, NEW n, NEW newCalls, NEW newAsked, NEW c, NEW e \in FilterConds,
         CallAdded(calls, asked, n, newCalls, newAsked, c, e),
         NEW exps \in Seq([field : Fields, cond : FilterConds]), ListHolds(calls, asked, exps),
         c.kind = "with", e # None, NEW x \in [field : Fields, cond : FilterConds], x.field = c.field, x.cond = e
  PROVE  ListHolds(newCalls, newAsked, Append(exps, x))
<1>0. PICK new : new = Append(exps, x)
  OBVIOUS
<1>1. PICK m \in Nat : new = Append(exps, x) /\ m = Len(exps)
  BY <1>0
<1>2. Len(new) = m + 1 /\ new[m + 1] = x /\ \A j \in 1..m : new[j] = exps[j]
  BY <1>1, Appended
<1>3. n \in Nat
  BY DEF CallAdded
<1>4. /\ (\A i \in 1..(n + 1) : i \in 1..n \/ i = n + 1) /\ (\A i \in 1..n : i \in 1..(n + 1)) /\ n + 1 \in 1..(n + 1)
      /\ (\A j \in 1..(m + 1) : j \in 1..m \/ j = m + 1) /\ (\A j \in 1..m : j \in 1..(m + 1)) /\ m + 1 \in 1..(m + 1)
  BY <1>3
<1>5. /\ \A i \in 1..n : calls[i].kind = "with" /\ asked[i] # None =>
           \E j \in 1..m : exps[j].field = calls[i].field /\ exps[j].cond = asked[i]
      /\ \A j \in 1..m : \E i \in 1..n :
           /\ calls[i].kind = "with" /\ asked[i] # None
           /\ exps[j].field = calls[i].field /\ exps[j].cond = asked[i]
  BY <1>1 DEF ListHolds, CallAdded
<1>6. /\ newCalls[n + 1] = c /\ newAsked[n + 1] = e /\ Len(newCalls) = n + 1
      /\ \A i \in 1..n : newCalls[i] = calls[i] /\ newAsked[i] = asked[i]
  BY DEF CallAdded
<1>7. ASSUME NEW i \in 1..(n + 1), newCalls[i].kind = "with", newAsked[i] # None
      PROVE  \E j \in 1..(m + 1) : new[j].field = newCalls[i].field /\ new[j].cond = newAsked[i]
  <2>1. CASE i \in 1..n
    <3>1. calls[i].kind = "with" /\ asked[i] # None /\ newCalls[i] = calls[i] /\ newAsked[i] = asked[i]
      BY <1>6, <1>7, <2>1
    <3>2. PICK j \in 1..m : exps[j].field = calls[i].field /\ exps[j].cond = asked[i]
      BY <1>5, <2>1, <3>1
    <3>3. QED
      BY <1>2, <1>4, <3>1, <3>2
  <2>2. CASE i = n + 1
    BY <1>2, <1>4, <1>6, <2>2
  <2>3. QED
    BY <1>4, <2>1, <2>2
<1>8. ASSUME NEW j \in 1..(m + 1)
      PROVE  \E i \in 1..(n + 1) : /\ newCalls[i].kind = "with" /\ newAsked[i] # None
                                   /\ new[j].field = newCalls[i].field /\ new[j].cond = newAsked[i]
  <2>1. CASE j \in 1..m
    <3>1. PICK i \in 1..n : /\ calls[i].kind = "with" /\ asked[i] # None
                            /\ exps[j].field = calls[i].field /\ exps[j].cond = asked[i]
      BY <1>5, <2>1
    <3>2. newCalls[i] = calls[i] /\ newAsked[i] = asked[i] /\ i \in 1..(n + 1) /\ new[j] = exps[j]
      BY <1>2, <1>4, <1>6, <2>1
    <3>3. QED
      BY <3>1, <3>2
  <2>2. CASE j = m + 1
    BY <1>2, <1>4, <1>6, <2>2
  <2>3. QED
    BY <1>4, <2>1, <2>2
<1>9. QED
  <2>1. ListHolds(newCalls, newAsked, new)
    BY <1>2, <1>6, <1>7, <1>8 DEF ListHolds
  <2>2. QED
    BY <1>1, <2>1

\* A condition a call asks for; None when its key is absent.
LEMMA AskTyped ==
  ASSUME flRequest \in [ConditionKeys -> Conditions \cup {Absent}], NEW c \in FilterCalls
  PROVE  /\ FilterAsked(c) \in FilterConds
         /\ c.kind \in {"with", "update"} =>
              (Present(c.key) => FilterAsked(c) # None /\ FilterAsked(c) = [op |-> c.op, value |-> flRequest[c.key]])
         /\ ~Present(c.key) => FilterAsked(c) = None
         /\ c.kind \notin {"with", "update"} => (Present(c.key) => FilterAsked(c) = ExecOp(c.op, flRequest[c.key]))
<1>1. PICK value \in Conditions \cup {Absent} : value = flRequest[c.key]
  BY DEF FilterCalls
<1>2. PICK op \in QueryOps : op = c.op
  BY DEF FilterCalls
<1>3. None \in FilterConds /\ [op |-> op, value |-> value] \in FilterConds
  BY DEF None, FilterConds
<1>4. [op |-> op, value |-> value] # None
  BY DEF None, QueryOps
<1>5. ExecOp(op, value) \in FilterConds
  BY <1>3, Zenon DEF ExecOp
<1>6. FilterAsked(c) = IF ~Present(c.key) THEN None
                       ELSE IF c.kind \in {"with", "update"} THEN [op |-> op, value |-> value]
                       ELSE ExecOp(op, value)
  BY <1>1, <1>2, Zenon DEF FilterAsked
<1>7. QED
  BY <1>1, <1>2, <1>3, <1>4, <1>5, <1>6, Zenon

\* What a call does to the list of calls.
LEMMA CallLogged ==
  ASSUME FilterIInv, NEW kind \in {"where", "or", "with", "update"}, NEW field \in Fields,
         NEW op \in QueryOps, NEW key \in ConditionKeys, LogCall(kind, field, op, key),
         NEW c, c = [kind |-> kind, field |-> field, op |-> op, key |-> key]
  PROVE  /\ CallAdded(flCalls, AskedFor, Len(flCalls), flCalls', AskedFor', c, FilterAsked(c))
         /\ c \in FilterCalls /\ flCalls' \in Seq(FilterCalls) /\ UNCHANGED flRequest
         /\ Overwrites => Overwrites'
         /\ ~Overwrites' /\ kind # "with" => \A i \in 1..Len(flCalls) :
              flCalls[i].kind # "with" /\ (flCalls[i].kind = "or" <=> kind = "or") => flCalls[i].field # c.field
<1>1. flCalls \in Seq(FilterCalls) /\ Len(flCalls) \in Nat
  BY DEF FilterIInv
<1>2. c \in FilterCalls
  BY DEF FilterCalls
<1>3. flCalls' = Append(flCalls, c) /\ UNCHANGED flRequest
  BY DEF LogCall
<1>4. /\ flCalls' \in Seq(FilterCalls) /\ Len(flCalls') = Len(flCalls) + 1
      /\ flCalls'[Len(flCalls) + 1] = c /\ \A i \in 1..Len(flCalls) : flCalls'[i] = flCalls[i]
  BY <1>1, <1>2, <1>3, Appended
<1>5. AskedFor' = [i \in 1..Len(flCalls') |-> FilterAsked(flCalls'[i])]
  BY <1>3, Zenon DEF AskedFor, FilterAsked, Present
<1>6. /\ \A i \in 1..Len(flCalls) : AskedFor[i] = FilterAsked(flCalls[i])
      /\ \A i \in 1..Len(flCalls') : AskedFor'[i] = FilterAsked(flCalls'[i])
  BY <1>5, Zenon DEF AskedFor
<1>7. CallAdded(flCalls, AskedFor, Len(flCalls), flCalls', AskedFor', c, FilterAsked(c))
  <2>1. \A i \in 1..Len(flCalls) : flCalls[i] \in FilterCalls /\ i \in 1..Len(flCalls')
    BY <1>1, <1>4
  <2>4. \A i \in 1..Len(flCalls) : AskedFor'[i] = AskedFor[i]
    BY <1>4, <1>6, <2>1, Zenon
  <2>2. AskedFor'[Len(flCalls) + 1] = FilterAsked(c)
    <3>1. Len(flCalls) + 1 \in 1..Len(flCalls')
      BY <1>1, <1>4
    <3>2. QED
      BY <1>4, <1>6, <3>1, Zenon
  <2>3. QED
    BY <1>1, <1>2, <1>4, <2>1, <2>2, <2>4 DEF CallAdded
<1>8. DOMAIN flCalls = 1..Len(flCalls) /\ DOMAIN flCalls' = 1..(Len(flCalls) + 1)
  BY <1>1, <1>4
<1>9. Overwrites => Overwrites'
  BY <1>1, <1>4, <1>8 DEF Overwrites
<1>10. ASSUME ~Overwrites', kind # "with", NEW i \in 1..Len(flCalls),
              flCalls[i].kind # "with", flCalls[i].kind = "or" <=> kind = "or"
       PROVE  flCalls[i].field # c.field
  <2>1. i \in DOMAIN flCalls' /\ Len(flCalls) + 1 \in DOMAIN flCalls' /\ i < Len(flCalls) + 1
    BY <1>1, <1>8
  <2>2. c.kind = kind
    OBVIOUS
  <2>3. QED
    BY <1>4, <1>10, <2>1, <2>2 DEF Overwrites
<1>11. QED
  BY <1>2, <1>3, <1>4, <1>7, <1>9, <1>10

LEMMA FilterKeeps == FilterIInv /\ [SqlFilterNext]_filterVars => FilterIInv'
<1> SUFFICES ASSUME FilterIInv, [SqlFilterNext]_filterVars PROVE FilterIInv'
  OBVIOUS
<1>0. /\ flRequest \in [ConditionKeys -> Conditions \cup {Absent}]
      /\ flEx \in [Fields -> FilterConds] /\ flOr \in [Fields -> FilterConds]
      /\ flExps \in Seq([field : Fields, cond : FilterConds])
  BY DEF FilterIInv
<1>1. CASE UNCHANGED filterVars
  BY <1>1 DEF filterVars, FilterIInv, AskedFor, FilterAsked, Present, Overwrites
<1>2. ASSUME NEW kind \in {"where", "or", "with", "update"}, NEW field \in Fields,
             NEW op \in QueryOps, NEW key \in ConditionKeys, LogCall(kind, field, op, key),
             NEW c, c = [kind |-> kind, field |-> field, op |-> op, key |-> key],
             NEW e, e = FilterAsked(c),
             flEx' = IF kind \in {"where", "update"} /\ e # None THEN [flEx EXCEPT ![field] = e] ELSE flEx,
             flOr' = IF kind = "or" /\ e # None THEN [flOr EXCEPT ![field] = e] ELSE flOr,
             IF kind = "with" /\ e # None
             THEN \E x : x.field = field /\ x.cond = e /\ x = [field |-> field, cond |-> e] /\ flExps' = Append(flExps, x)
             ELSE flExps' = flExps
      PROVE  FilterIInv'
  <2>1. /\ CallAdded(flCalls, AskedFor, Len(flCalls), flCalls', AskedFor', c, e)
        /\ c \in FilterCalls /\ flCalls' \in Seq(FilterCalls) /\ flRequest' = flRequest
        /\ Overwrites => Overwrites'
        /\ ~Overwrites' /\ kind # "with" => \A i \in 1..Len(flCalls) :
             flCalls[i].kind # "with" /\ (flCalls[i].kind = "or" <=> kind = "or") => flCalls[i].field # c.field
    BY <1>2, CallLogged
  <2>2. c.kind = kind /\ c.field = field
    BY <1>2
  <2>3. e \in FilterConds
    BY <1>0, <1>2, <2>1, AskTyped
  <2>4. flEx' \in [Fields -> FilterConds] /\ flOr' \in [Fields -> FilterConds]
    BY <1>0, <1>2, <2>3
  <2>5. flExps' \in Seq([field : Fields, cond : FilterConds])
    <3>1. CASE kind = "with" /\ e # None
      <4>1. PICK x : x = [field |-> field, cond |-> e] /\ flExps' = Append(flExps, x)
        BY <1>2, <3>1
      <4>2. x \in [field : Fields, cond : FilterConds]
        BY <2>3, <4>1
      <4>3. QED
        BY <1>0, <4>1, <4>2, Appended
    <3>2. CASE ~(kind = "with" /\ e # None)
      BY <1>0, <1>2, <3>2
    <3>3. QED
      BY <3>1, <3>2
  <2>6. ASSUME ~Overwrites' PROVE /\ MapHolds(flCalls', AskedFor', flEx', {"where", "update"})
                                  /\ MapHolds(flCalls', AskedFor', flOr', {"or"})
                                  /\ ListHolds(flCalls', AskedFor', flExps')
    <3>1. /\ MapHolds(flCalls, AskedFor, flEx, {"where", "update"})
          /\ MapHolds(flCalls, AskedFor, flOr, {"or"})
          /\ ListHolds(flCalls, AskedFor, flExps)
      BY <2>1, <2>6 DEF FilterIInv
    <3>2. MapHolds(flCalls', AskedFor', flEx', {"where", "update"})
      <4>1. CASE kind \in {"where", "update"} /\ e # None
        <5>1. \A i \in 1..Len(flCalls) : flCalls[i].kind \in {"where", "update"} => flCalls[i].field # c.field
          BY <2>1, <2>6, <4>1
        <5>2. c.kind \in {"where", "update"}
          BY <2>2, <4>1
        <5>3. MapHolds(flCalls', AskedFor', [flEx EXCEPT ![c.field] = e], {"where", "update"})
          BY <1>0, <2>1, <2>3, <3>1, <5>1, <5>2, MapPut
        <5>4. QED
          BY <1>2, <2>2, <4>1, <5>3
      <4>2. CASE ~(kind \in {"where", "update"} /\ e # None)
        <5>1. flEx' = flEx /\ (c.kind \notin {"where", "update"} \/ e = None)
          BY <1>2, <2>2, <4>2
        <5>2. MapHolds(flCalls', AskedFor', flEx, {"where", "update"})
          BY <2>1, <3>1, <5>1, MapStays
        <5>3. QED
          BY <5>1, <5>2
      <4>3. QED
        BY <4>1, <4>2
    <3>3. MapHolds(flCalls', AskedFor', flOr', {"or"})
      <4>1. CASE kind = "or" /\ e # None
        <5>1. \A i \in 1..Len(flCalls) : flCalls[i].kind \in {"or"} => flCalls[i].field # c.field
          BY <2>1, <2>6, <4>1
        <5>2. c.kind \in {"or"}
          BY <2>2, <4>1
        <5>3. MapHolds(flCalls', AskedFor', [flOr EXCEPT ![c.field] = e], {"or"})
          BY <1>0, <2>1, <2>3, <3>1, <5>1, <5>2, MapPut
        <5>4. QED
          BY <1>2, <2>2, <4>1, <5>3
      <4>2. CASE ~(kind = "or" /\ e # None)
        <5>1. flOr' = flOr /\ (c.kind \notin {"or"} \/ e = None)
          BY <1>2, <2>2, <4>2
        <5>2. MapHolds(flCalls', AskedFor', flOr, {"or"})
          BY <2>1, <3>1, <5>1, MapStays
        <5>3. QED
          BY <5>1, <5>2
      <4>3. QED
        BY <4>1, <4>2
    <3>4. ListHolds(flCalls', AskedFor', flExps')
      <4>1. CASE kind = "with" /\ e # None
        <5>1. PICK x : x.field = field /\ x.cond = e /\ x = [field |-> field, cond |-> e] /\ flExps' = Append(flExps, x)
          BY <1>2, <4>1
        <5>2. x \in [field : Fields, cond : FilterConds] /\ x.field = c.field /\ x.cond = e
          BY <2>2, <2>3, <5>1
        <5>3. c.kind = "with" /\ e # None
          BY <2>2, <4>1
        <5>4. ListHolds(flCalls', AskedFor', Append(flExps, x))
          BY <1>0, <2>1, <2>3, <3>1, <5>2, <5>3, ListPut
        <5>5. QED
          BY <5>1, <5>4
      <4>2. CASE ~(kind = "with" /\ e # None)
        <5>1. flExps' = flExps /\ (c.kind # "with" \/ e = None)
          BY <1>2, <2>2, <4>2
        <5>2. ListHolds(flCalls', AskedFor', flExps)
          BY <2>1, <3>1, <5>1, ListStays
        <5>3. QED
          BY <5>1, <5>2
      <4>3. QED
        BY <4>1, <4>2
    <3>5. QED
      BY <3>2, <3>3, <3>4
  <2>7. QED
    BY <1>0, <2>1, <2>4, <2>5, <2>6 DEF FilterIInv
<1>3. ASSUME NEW field \in Fields, NEW key \in ConditionKeys, With(field, key)
      PROVE  FilterIInv'
  <2>1. PICK c, e : c = [kind |-> "with", field |-> field, op |-> "neq", key |-> key] /\ e = FilterAsked(c)
    OBVIOUS
  <2>2. "neq" \in QueryOps /\ "with" \in {"where", "or", "with", "update"}
    BY DEF QueryOps
  <2>3. /\ c \in FilterCalls /\ c.kind = "with" /\ c.key = key /\ c.op = "neq"
    BY <2>1, <2>2 DEF FilterCalls
  <2>4. e # None <=> Present(key)
    BY <1>0, <2>1, <2>3, AskTyped
  <2>5. Present(key) => e = [op |-> "neq", value |-> flRequest[key]]
    BY <1>0, <2>1, <2>3, AskTyped
  <2>6. IF e # None
        THEN \E x : x.field = field /\ x.cond = e /\ x = [field |-> field, cond |-> e] /\ flExps' = Append(flExps, x)
        ELSE flExps' = flExps
    <3>1. CASE e # None
      <4>1. flExps' = Append(flExps, [field |-> field, cond |-> e])
        BY <1>3, <2>4, <2>5, <3>1, Zenon DEF With
      <4>2. PICK x : x = [field |-> field, cond |-> e]
        OBVIOUS
      <4>3. x.field = field /\ x.cond = e
        BY <4>2
      <4>4. QED
        BY <3>1, <4>1, <4>2, <4>3, Zenon
    <3>2. CASE e = None
      BY <1>3, <2>4, <3>2 DEF With
    <3>3. QED
      BY <3>1, <3>2
  <2>7. LogCall("with", field, "neq", key) /\ flEx' = flEx /\ flOr' = flOr
    BY <1>3 DEF With
  <2>8. QED
    BY <1>2, <2>1, <2>2, <2>6, <2>7
<1>4. ASSUME NEW field \in Fields, NEW key \in ConditionKeys, Update(field, key)
      PROVE  FilterIInv'
  <2>1. PICK c, e : c = [kind |-> "update", field |-> field, op |-> "eq", key |-> key] /\ e = FilterAsked(c)
    OBVIOUS
  <2>2. "eq" \in QueryOps /\ "update" \in {"where", "or", "with", "update"}
    BY DEF QueryOps
  <2>3. /\ c \in FilterCalls /\ c.kind = "update" /\ c.key = key /\ c.op = "eq"
    BY <2>1, <2>2 DEF FilterCalls
  <2>4. e # None <=> Present(key)
    BY <1>0, <2>1, <2>3, AskTyped
  <2>5. Present(key) => e = [op |-> "eq", value |-> flRequest[key]]
    BY <1>0, <2>1, <2>3, AskTyped
  <2>6. flEx' = IF e # None THEN [flEx EXCEPT ![field] = e] ELSE flEx
    BY <1>4, <2>4, <2>5, Zenon DEF Update
  <2>7. LogCall("update", field, "eq", key) /\ flOr' = flOr /\ flExps' = flExps
    BY <1>4 DEF Update
  <2>8. QED
    BY <1>2, <2>1, <2>2, <2>6, <2>7
<1>5. ASSUME NEW field \in Fields, NEW key \in ConditionKeys, NEW op \in QueryOps, Where(field, op, key)
      PROVE  FilterIInv'
  <2>1. PICK c, e : c = [kind |-> "where", field |-> field, op |-> op, key |-> key] /\ e = FilterAsked(c)
    OBVIOUS
  <2>3. /\ c \in FilterCalls /\ c.kind = "where" /\ c.key = key /\ c.op = op
    BY <2>1 DEF FilterCalls
  <2>4. IF Present(key) THEN e = ExecOp(op, flRequest[key]) ELSE e = None
    BY <1>0, <2>1, <2>3, AskTyped
  <2>5. flEx' = IF e # None THEN [flEx EXCEPT ![field] = e] ELSE flEx
    BY <1>5, <2>4, Zenon DEF Where
  <2>6. LogCall("where", field, op, key) /\ flOr' = flOr /\ flExps' = flExps
    BY <1>5 DEF Where
  <2>7. QED
    BY <1>2, <2>1, <2>5, <2>6
<1>6. ASSUME NEW field \in Fields, NEW key \in ConditionKeys, NEW op \in QueryOps, Or(field, op, key)
      PROVE  FilterIInv'
  <2>1. PICK c, e : c = [kind |-> "or", field |-> field, op |-> op, key |-> key] /\ e = FilterAsked(c)
    OBVIOUS
  <2>3. /\ c \in FilterCalls /\ c.kind = "or" /\ c.key = key /\ c.op = op
    BY <2>1 DEF FilterCalls
  <2>4. IF Present(key) THEN e = ExecOp(op, flRequest[key]) ELSE e = None
    BY <1>0, <2>1, <2>3, AskTyped
  <2>5. flOr' = IF e # None THEN [flOr EXCEPT ![field] = e] ELSE flOr
    BY <1>6, <2>4, Zenon DEF Or
  <2>6. LogCall("or", field, op, key) /\ flEx' = flEx /\ flExps' = flExps
    BY <1>6 DEF Or
  <2>7. QED
    BY <1>2, <2>1, <2>5, <2>6
<1>7. QED
  BY <1>1, <1>3, <1>4, <1>5, <1>6 DEF SqlFilterNext

\* The expressions of End select the rows the calls asked for.
LEMMA FilterIInvSuffices == FilterIInv => FilterMeansItsCalls
<1> SUFFICES ASSUME FilterIInv, ~Overwrites, NEW row \in [Fields -> 0..2]
             PROVE  LET met == {i \in DOMAIN flCalls : FilterAsked(flCalls[i]) # None
                                        /\ Meets(row[flCalls[i].field], FilterAsked(flCalls[i]))}
                        asked == {i \in DOMAIN flCalls : FilterAsked(flCalls[i]) # None}
                        ors == {i \in asked : flCalls[i].kind = "or"}
                    IN  EndExpressions(row) <=> (asked \ ors) \subseteq met /\ (ors = {} \/ ors \cap met # {})
  BY DEF FilterMeansItsCalls
<1>1. PICK n \in Nat : n = Len(flCalls) /\ DOMAIN flCalls = 1..n
  BY DEF FilterIInv
<1>2. DOMAIN flExps = 1..Len(flExps)
  BY DEF FilterIInv
<1>3. PICK ask : ask = AskedFor
  OBVIOUS
<1>4. \A i \in 1..n : FilterAsked(flCalls[i]) = ask[i]
  BY <1>1, <1>3 DEF AskedFor
<1>5. \A i \in 1..n : flCalls[i].kind \in {"where", "or", "with", "update"} /\ flCalls[i].field \in Fields
  <2>1. \A i \in 1..n : flCalls[i] \in FilterCalls
    BY <1>1 DEF FilterIInv
  <2>2. QED
    BY <2>1 DEF FilterCalls
<1>6. /\ MapHolds(flCalls, ask, flEx, {"where", "update"})
      /\ MapHolds(flCalls, ask, flOr, {"or"})
      /\ ListHolds(flCalls, ask, flExps)
  BY <1>3 DEF FilterIInv
<1> DEFINE Met(i) == Meets(row[flCalls[i].field], ask[i])
           Sought == \A i \in 1..n : ask[i] # None /\ flCalls[i].kind # "or" => Met(i)
           SomeOr == (\E i \in 1..n : ask[i] # None /\ flCalls[i].kind = "or")
                       => \E i \in 1..n : ask[i] # None /\ flCalls[i].kind = "or" /\ Met(i)
<1>7. EndExpressions(row) => Sought
  <2> SUFFICES ASSUME EndExpressions(row), NEW i \in 1..n, ask[i] # None, flCalls[i].kind # "or"
               PROVE  Met(i)
    OBVIOUS
  <2>1. CASE flCalls[i].kind \in {"where", "update"}
    <3>1. flEx[flCalls[i].field] = ask[i] /\ flCalls[i].field \in Fields
      BY <1>1, <1>5, <1>6, <2>1 DEF MapHolds
    <3>2. QED
      BY <3>1, Zenon DEF EndExpressions
  <2>2. CASE flCalls[i].kind = "with"
    <3>1. PICK j \in 1..Len(flExps) : flExps[j].field = flCalls[i].field /\ flExps[j].cond = ask[i]
      BY <1>1, <1>6, <2>2 DEF ListHolds
    <3>2. Meets(row[flExps[j].field], flExps[j].cond)
      BY <1>2 DEF EndExpressions
    <3>3. QED
      BY <3>1, <3>2
  <2>3. QED
    BY <1>5, <2>1, <2>2
<1>8. EndExpressions(row) => SomeOr
  <2> SUFFICES ASSUME EndExpressions(row), NEW k \in 1..n, ask[k] # None, flCalls[k].kind = "or"
               PROVE  \E i \in 1..n : ask[i] # None /\ flCalls[i].kind = "or" /\ Met(i)
    OBVIOUS
  <2>1. flOr[flCalls[k].field] # None /\ flCalls[k].field \in Fields
    BY <1>1, <1>5, <1>6 DEF MapHolds
  <2>2. PICK f \in Fields : flOr[f] # None /\ Meets(row[f], flOr[f])
    BY <2>1, Zenon DEF EndExpressions
  <2>3. PICK i \in 1..n : flCalls[i].kind = "or" /\ flCalls[i].field = f /\ ask[i] = flOr[f]
    BY <1>1, <1>6, <2>2 DEF MapHolds
  <2>4. QED
    BY <2>2, <2>3
<1>9. Sought /\ SomeOr => EndExpressions(row)
  <2> SUFFICES ASSUME Sought, SomeOr PROVE EndExpressions(row)
    OBVIOUS
  <2>1. ASSUME NEW f \in Fields, flEx[f] # None PROVE Meets(row[f], flEx[f])
    <3>1. PICK i \in 1..n : flCalls[i].kind \in {"where", "update"} /\ flCalls[i].field = f /\ ask[i] = flEx[f]
      BY <1>1, <1>6, <2>1 DEF MapHolds
    <3>2. QED
      BY <2>1, <3>1
  <2>2. ASSUME NEW j \in DOMAIN flExps PROVE Meets(row[flExps[j].field], flExps[j].cond)
    <3>1. PICK i \in 1..n : /\ flCalls[i].kind = "with" /\ ask[i] # None
                            /\ flExps[j].field = flCalls[i].field /\ flExps[j].cond = ask[i]
      BY <1>1, <1>2, <1>6 DEF ListHolds
    <3>2. QED
      BY <3>1
  <2>3. ASSUME NEW f \in Fields, flOr[f] # None PROVE \E g \in Fields : flOr[g] # None /\ Meets(row[g], flOr[g])
    <3>1. PICK k \in 1..n : flCalls[k].kind = "or" /\ flCalls[k].field = f /\ ask[k] = flOr[f]
      BY <1>1, <1>6, <2>3 DEF MapHolds
    <3>2. PICK i \in 1..n : ask[i] # None /\ flCalls[i].kind = "or" /\ Met(i)
      BY <2>3, <3>1
    <3>3. flOr[flCalls[i].field] = ask[i] /\ flCalls[i].field \in Fields
      BY <1>1, <1>5, <1>6, <3>2 DEF MapHolds
    <3>4. QED
      BY <3>2, <3>3
  <2>4. QED
    BY <2>1, <2>2, <2>3, Zenon DEF EndExpressions
<1>10. EndExpressions(row) <=> Sought /\ SomeOr
  BY <1>7, <1>8, <1>9
<1> DEFINE met == {i \in DOMAIN flCalls : FilterAsked(flCalls[i]) # None
                                   /\ Meets(row[flCalls[i].field], FilterAsked(flCalls[i]))}
           asked == {i \in DOMAIN flCalls : FilterAsked(flCalls[i]) # None}
           ors == {i \in asked : flCalls[i].kind = "or"}
<1>11. /\ \A i : i \in met <=> i \in 1..n /\ ask[i] # None /\ Met(i)
       /\ \A i : i \in asked <=> i \in 1..n /\ ask[i] # None
       /\ \A i : i \in ors <=> i \in 1..n /\ ask[i] # None /\ flCalls[i].kind = "or"
  BY <1>1, <1>4
<1> HIDE DEF met, asked, ors, Met
<1>12. Sought <=> (asked \ ors) \subseteq met
  BY <1>11
<1>13. SomeOr <=> (ors = {} \/ ors \cap met # {})
  BY <1>11
<1>14. QED
  BY <1>10, <1>12, <1>13 DEF met, asked, ors

-----------------------------------------------------------------------------
LEMMA FilterInitInv == SqlFilterInit => FilterIInv
<1> SUFFICES ASSUME SqlFilterInit PROVE FilterIInv
  OBVIOUS
<1>1. None \in FilterConds
  BY DEF None, FilterConds
<1>2. /\ flEx \in [Fields -> FilterConds] /\ flOr \in [Fields -> FilterConds]
      /\ \A f \in Fields : flEx[f] = None /\ flOr[f] = None
  BY <1>1 DEF SqlFilterInit
<1>3. Len(flCalls) = 0 /\ Len(flExps) = 0 /\ flCalls \in Seq(FilterCalls)
      /\ flExps \in Seq([field : Fields, cond : FilterConds])
  BY DEF SqlFilterInit
<1>4. /\ MapHolds(flCalls, AskedFor, flEx, {"where", "update"})
      /\ MapHolds(flCalls, AskedFor, flOr, {"or"}) /\ ListHolds(flCalls, AskedFor, flExps)
  BY <1>2, <1>3 DEF MapHolds, ListHolds
<1>5. QED
  BY <1>2, <1>3, <1>4 DEF SqlFilterInit, FilterIInv

LEMMA PagesInitInv == SqlPagesInit => PagesIInv
BY SqlPagesAssumption DEF SqlPagesInit, PagesIInv, NoPage

\* For any fields, keys and calls of a filter, any table and any pages whose
\* offset fits an uint, while others change only what is behind the pages read
\* (sql.go ArgsFilter and PageQuery).
THEOREM QueriesAreFaithful ==
  SqlFilterSpec /\ SqlPagesSpec => []SqlFaithful
<1>1. FilterIInv /\ PagesIInv => SqlFaithful
  BY FilterIInvSuffices, PagesIInvSuffices DEF SqlFaithful
<1>2. QED
  BY FilterInitInv, FilterKeeps, PagesInitInv, PagesKeep, <1>1, PTL DEF SqlFilterSpec, SqlPagesSpec

-----------------------------------------------------------------------------
(* LogQuery: a query alone gives the first LogLimit lines asked for.       *)

Places == DayNumbers \X (1..MaxLines)
LogLines == [time : Int, pattern : {"no", "elsewhere", "message"}]
QueryRecs == [step : {"idle", "file", "line", "done"}, request : Requests \cup {NoQuery.request},
              day : Int, line : Int, chunk : Seq(LogLines), results : Seq(LogLines)]

\* The lines found are those asked for that come before this place.
Reached(results, files, asked, place) ==
  /\ Len(results) = Cardinality(EarlierThan(place, asked))
  /\ \A p \in EarlierThan(place, asked) :
       results[Cardinality(EarlierThan(p, asked)) + 1] = files[p[1]].lines[p[2]]

\* The count is of the lines found, and at the limit these are the answer.
FoundSoFar(results, files, asked, place, total) ==
  /\ total \in 0..LogLimit /\ Len(results) = total
  /\ total < LogLimit => Reached(results, files, asked, place)
  /\ total = LogLimit => Answers(results, files, asked)

Progress(c, files, total) ==
  /\ c \in QueryRecs /\ c.request \in Requests /\ c.step # "idle"
  /\ c.step = "file" => /\ c.day \in 1..(Days + 1)
                        /\ FoundSoFar(c.results, files, Asked(files, c.request), <<c.day, 1>>, total)
  /\ c.step = "line" =>
       /\ c.day \in DayNumbers /\ c.line \in 1..(Len(files[c.day].lines) + 1)
       /\ FoundSoFar(c.results \o c.chunk, files, Asked(files, c.request), <<c.day, c.line>>, total)
  /\ c.step = "done" => Answers(c.results, files, Asked(files, c.request))

AllComplete(files) == \A d \in DayNumbers : files[d].newline

IsQuery(c) == c = [step |-> c.step, request |-> c.request, day |-> c.day, line |-> c.line,
                   chunk |-> c.chunk, results |-> c.results]

\* Of a query for "" nothing is claimed.
Going(c, files, total) ==
  IsQuery(c) /\ (AllComplete(files) /\ c.request.message # "empty" => Progress(c, files, total))

QueryIInv ==
  /\ tqFiles \in Files /\ tqQuery = [q \in Queries |-> tqQuery[q]] /\ tqAlone \subseteq Queries
  /\ \A q \in tqAlone : tqAlone = {q} /\ Active \subseteq {q}
  /\ \A q \in tqAlone : Going(tqQuery[q], tqFiles, tqTotal)

LEMMA PlacesFinite ==
  ASSUME NEW T \in SUBSET Places
  PROVE  IsFiniteSet(T) /\ Cardinality(T) \in Nat
<1>1. IsFiniteSet(DayNumbers) /\ IsFiniteSet(1..MaxLines)
  BY QueryAssumption, FS_Interval DEF DayNumbers
<1>2. IsFiniteSet(Places)
  BY <1>1, FS_Product DEF Places
<1>3. QED
  BY <1>2, FS_Subset, FS_CardinalityType

LEMMA PlacesTyped ==
  ASSUME NEW p \in Places
  PROVE  p[1] \in Nat /\ p[2] \in Nat /\ p[1] \in DayNumbers /\ p[2] \in 1..MaxLines /\ p = <<p[1], p[2]>>
BY QueryAssumption DEF Places, DayNumbers

LEMMA RankBelow ==
  ASSUME NEW asked \in SUBSET Places, NEW d \in Nat, NEW i \in Nat, NEW p \in EarlierThan(<<d, i>>, asked)
  PROVE  /\ Cardinality(EarlierThan(p, asked)) \in Nat
         /\ Cardinality(EarlierThan(<<d, i>>, asked)) \in Nat
         /\ Cardinality(EarlierThan(p, asked)) < Cardinality(EarlierThan(<<d, i>>, asked))
<1> DEFINE below == EarlierThan(p, asked)
           all == EarlierThan(<<d, i>>, asked)
<1>1. below \in SUBSET Places /\ all \in SUBSET Places /\ p \in Places
  BY DEF EarlierThan
<1>2. p \in all /\ p \notin below
  BY <1>1, PlacesTyped DEF EarlierThan
<1>3. below \subseteq all
  <2>1. ASSUME NEW o \in below PROVE o \in all
    <3>1. o \in asked /\ o[1] \in Nat /\ o[2] \in Nat /\ p[1] \in Nat /\ p[2] \in Nat
      BY <1>1, PlacesTyped DEF EarlierThan
    <3>2. o[1] < p[1] \/ (o[1] = p[1] /\ o[2] < p[2])
      BY DEF EarlierThan
    <3>3. p[1] < d \/ (p[1] = d /\ p[2] < i)
      BY DEF EarlierThan
    <3>4. o[1] < d \/ (o[1] = d /\ o[2] < i)
      BY <3>1, <3>2, <3>3
    <3>5. QED
      BY <3>1, <3>4 DEF EarlierThan
  <2>2. QED
    BY <2>1
<1> HIDE DEF below, all
<1>4. IsFiniteSet(all) /\ Cardinality(all) \in Nat /\ Cardinality(below) \in Nat
  BY <1>1, PlacesFinite
<1>5. Cardinality(below) <= Cardinality(all) /\ Cardinality(below) # Cardinality(all)
  <2>1. below \in SUBSET all
    BY <1>3
  <2>2. QED
    BY <1>2, <1>4, <2>1, FS_Subset
<1>6. QED
  BY <1>4, <1>5 DEF below, all

\* The line at the place reached, when it is asked for, is the next result.
LEMMA ReachedNext ==
  ASSUME NEW asked \in SUBSET Places, NEW files, NEW d \in Nat, NEW i \in Nat, <<d, i>> \in asked,
         NEW results \in Seq(LogLines), Reached(results, files, asked, <<d, i>>),
         files[d].lines[i] \in LogLines
  PROVE  Reached(Append(results, files[d].lines[i]), files, asked, <<d, i + 1>>)
<1> DEFINE here == EarlierThan(<<d, i>>, asked)
           next == EarlierThan(<<d, i + 1>>, asked)
<1>1. PICK line \in LogLines : line = files[d].lines[i]
  OBVIOUS
<1>2. next = here \cup {<<d, i>>} /\ <<d, i>> \notin here
  <2>1. ASSUME NEW o \in asked PROVE o \in next <=> o \in here \/ o = <<d, i>>
    <3>1. o[1] \in Nat /\ o[2] \in Nat /\ o = <<o[1], o[2]>>
      BY PlacesTyped
    <3>2. o = <<d, i>> <=> o[1] = d /\ o[2] = i
      BY <3>1
    <3>3. o[2] < i + 1 <=> o[2] < i \/ o[2] = i
      BY <3>1
    <3>4. QED
      BY <3>2, <3>3 DEF EarlierThan
  <2>2. next \subseteq asked /\ here \subseteq asked
    BY DEF EarlierThan
  <2>3. <<d, i>> \notin here
    BY DEF EarlierThan
  <2>4. QED
    BY <2>1, <2>2, <2>3
<1>3. /\ Len(results) = Cardinality(here)
      /\ \A p \in here : results[Cardinality(EarlierThan(p, asked)) + 1] = files[p[1]].lines[p[2]]
  BY DEF Reached
<1>4. \A p \in here : Cardinality(EarlierThan(p, asked)) \in 0..(Cardinality(here) - 1)
  BY RankBelow
<1>5. IsFiniteSet(here) /\ Cardinality(here) \in Nat
  <2>1. here \in SUBSET Places
    BY DEF EarlierThan
  <2>2. QED
    BY <2>1, PlacesFinite
<1>6. Cardinality(next) = Cardinality(here) + 1
  BY <1>2, <1>5, FS_AddElement
<1>7. PICK more : more = Append(results, line)
  OBVIOUS
<1>8. Len(more) = Cardinality(here) + 1 /\ more[Cardinality(here) + 1] = line
      /\ \A j \in 1..Cardinality(here) : more[j] = results[j]
  <2>1. /\ Len(more) = Len(results) + 1 /\ more[Len(results) + 1] = line
        /\ \A j \in 1..Len(results) : more[j] = results[j]
    BY <1>7
  <2>2. Len(results) = Cardinality(here)
    BY <1>3
  <2>3. QED
    BY <2>1, <2>2
<1> HIDE DEF here, next
<1>9. ASSUME NEW p \in next PROVE more[Cardinality(EarlierThan(p, asked)) + 1] = files[p[1]].lines[p[2]]
  <2>1. CASE p \in here
    <3>1. PICK rank \in 0..(Cardinality(here) - 1) : rank = Cardinality(EarlierThan(p, asked))
      BY <1>4, <2>1
    <3>2. rank + 1 \in 1..Cardinality(here)
      BY <1>5, <3>1
    <3>3. QED
      BY <1>3, <1>8, <2>1, <3>1, <3>2
  <2>2. CASE p = <<d, i>>
    BY <1>1, <1>8, <2>2 DEF here
  <2>3. QED
    BY <1>2, <2>1, <2>2
<1>10. QED
  BY <1>1, <1>6, <1>7, <1>8, <1>9 DEF Reached, next

\* With the limit reached, or nothing asked for behind the place, the lines found are the answer.
LEMMA ReachedAnswers ==
  ASSUME NEW asked \in SUBSET Places, NEW files, NEW d \in Nat, NEW i \in Nat,
         NEW results, Reached(results, files, asked, <<d, i>>), Len(results) <= LogLimit,
         Len(results) = LogLimit \/ EarlierThan(<<d, i>>, asked) = asked
  PROVE  Answers(results, files, asked)
<1> DEFINE here == EarlierThan(<<d, i>>, asked)
<1>1. here \subseteq asked /\ IsFiniteSet(asked) /\ Cardinality(asked) \in Nat /\ Cardinality(here) \in Nat
  <2>1. here \in SUBSET Places /\ here \subseteq asked
    BY DEF EarlierThan
  <2>2. QED
    BY <2>1, PlacesFinite
<1>2. Cardinality(here) <= Cardinality(asked)
  <2>1. here \in SUBSET asked
    BY <1>1
  <2>2. QED
    BY <1>1, <2>1, FS_Subset
<1>3. Len(results) = IF Cardinality(asked) < LogLimit THEN Cardinality(asked) ELSE LogLimit
  BY <1>1, <1>2, QueryAssumption DEF Reached
<1>4. ASSUME NEW p \in asked, Cardinality(EarlierThan(p, asked)) < LogLimit
      PROVE  results[Cardinality(EarlierThan(p, asked)) + 1] = files[p[1]].lines[p[2]]
  <2>1. p \in here
    <3>1. SUFFICES ASSUME p \notin here PROVE FALSE
      OBVIOUS
    <3>2. p[1] \in Nat /\ p[2] \in Nat
      BY PlacesTyped
    <3>3. ~(p[1] < d \/ (p[1] = d /\ p[2] < i))
      BY <3>1 DEF EarlierThan
    <3>4. here \subseteq EarlierThan(p, asked)
      <4>1. ASSUME NEW o \in here PROVE o \in EarlierThan(p, asked)
        <5>1. o \in asked /\ o[1] \in Nat /\ o[2] \in Nat /\ (o[1] < d \/ (o[1] = d /\ o[2] < i))
          BY PlacesTyped DEF EarlierThan
        <5>2. o[1] < p[1] \/ (o[1] = p[1] /\ o[2] < p[2])
          BY <3>2, <3>3, <5>1
        <5>3. QED
          BY <5>1, <5>2 DEF EarlierThan
      <4>2. QED
        BY <4>1
    <3>5. here # asked
      BY <3>1
    <3>6. Cardinality(here) = LogLimit
      BY <3>5 DEF Reached
    <3>7. EarlierThan(p, asked) \in SUBSET Places
      BY DEF EarlierThan
    <3>8. IsFiniteSet(EarlierThan(p, asked)) /\ Cardinality(EarlierThan(p, asked)) \in Nat
      BY <3>7, PlacesFinite
    <3>9. Cardinality(here) <= Cardinality(EarlierThan(p, asked))
      <4>1. here \in SUBSET EarlierThan(p, asked)
        BY <3>4
      <4>2. QED
        BY <3>8, <4>1, FS_Subset
    <3>10. QED
      BY <1>1, <1>4, <3>6, <3>8, <3>9, QueryAssumption
  <2>2. QED
    BY <2>1 DEF Reached
<1>5. QED
  BY <1>3, <1>4 DEF Answers

-----------------------------------------------------------------------------
\* The lines of a file and its days.
LEMMA MomentsTyped ==
  ASSUME NEW t \in Moments
  PROVE  t \in Int /\ DayOf(t) \in DayNumbers
BY QueryAssumption

LEMMA FilesTyped ==
  ASSUME NEW files \in Files, NEW d \in DayNumbers
  PROVE  /\ d \in Nat /\ files[d].lines \in Seq(StoredLines(d)) /\ files[d].newline \in BOOLEAN
         /\ Len(files[d].lines) \in 0..MaxLines
         /\ \A i \in 1..Len(files[d].lines) : files[d].lines[i] \in LogLines
         /\ \A i, j \in 1..Len(files[d].lines) :
              i < j => files[d].lines[i].time <= files[d].lines[j].time
<1>1. d \in Nat
  BY DEF DayNumbers
<1>2. files[d].lines \in Seq(StoredLines(d)) /\ InOrder(files[d].lines)
  BY DEF Files
<1>3. files[d] \in UNION {[lines : BoundedSeq(StoredLines(e), MaxLines), newline : BOOLEAN] : e \in DayNumbers}
  BY DEF Files
<1>4. PICK e \in DayNumbers : files[d] \in [lines : BoundedSeq(StoredLines(e), MaxLines), newline : BOOLEAN]
  BY <1>3
<1>5. files[d].lines \in BoundedSeq(StoredLines(e), MaxLines) /\ files[d].newline \in BOOLEAN
  BY <1>4
<1>6. PICK m \in 0..MaxLines : files[d].lines \in [1..m -> StoredLines(e)]
  BY <1>5 DEF BoundedSeq, SeqOf
<1>7. Len(files[d].lines) \in 0..MaxLines
  BY <1>6, QueryAssumption
<1>8. StoredLines(d) \subseteq LogLines
  BY MomentsTyped DEF StoredLines, LogLines
<1>9. \A i \in 1..Len(files[d].lines) : files[d].lines[i] \in LogLines
  BY <1>2, <1>8
<1>10. QED
  BY <1>1, <1>2, <1>5, <1>7, <1>9 DEF InOrder

LEMMA AskedForTyped ==
  ASSUME NEW r \in Requests
  PROVE  /\ r.from \in Int /\ r.to \in Int /\ r.from <= r.to
         /\ DayOf(r.from) \in DayNumbers /\ DayOf(r.to) \in DayNumbers
<1>1. r.from \in Moments /\ r.to \in Moments /\ r.from <= r.to
  BY DEF Requests
<1>2. QED
  BY <1>1, MomentsTyped

\* What is asked for: places of lines, on the days of the request.
LEMMA AskedPlaces ==
  ASSUME NEW files \in Files, NEW r \in Requests, NEW p \in Asked(files, r)
  PROVE  /\ p \in Places /\ p[1] \in DayNumbers /\ p[2] \in 1..Len(files[p[1]].lines)
         /\ Matches(files[p[1]].lines[p[2]], r)
         /\ DayOf(r.from) <= p[1] /\ p[1] <= DayOf(r.to)
<1>1. p \in Places /\ p[2] <= Len(files[p[1]].lines) /\ Matches(files[p[1]].lines[p[2]], r)
  BY DEF Asked, Places
<1>2. p[1] \in DayNumbers /\ p[2] \in Nat /\ p[2] >= 1
  BY <1>1, PlacesTyped
<1>3. PICK d \in DayNumbers : d = p[1] /\ d \in Nat
  BY <1>2 DEF DayNumbers
<1>4. p[2] \in 1..Len(files[d].lines)
  <2>1. Len(files[d].lines) \in Nat
    BY FilesTyped
  <2>2. QED
    BY <1>1, <1>2, <1>3, <2>1
<1>5. files[d].lines[p[2]] \in StoredLines(d)
  <2>1. files[d].lines \in Seq(StoredLines(d))
    BY FilesTyped
  <2>2. QED
    BY <1>4, <2>1
<1>6. PICK t \in Int : t = files[d].lines[p[2]].time /\ t \in Moments /\ DayOf(t) = d
  BY <1>5, MomentsTyped DEF StoredLines
<1>7. r.from <= t /\ t <= r.to
  BY <1>1, <1>3, <1>6 DEF Matches, MatchesTime
<1>8. DayOf(t) = d
  BY <1>6
<1>9. DayOf(r.from) <= DayOf(t) /\ DayOf(t) <= DayOf(r.to)
  BY <1>6, <1>7, AskedForTyped DEF DayOf
<1>10. QED
  BY <1>1, <1>2, <1>3, <1>4, <1>8, <1>9

LEMMA AskedSubset ==
  ASSUME NEW files, NEW r
  PROVE  Asked(files, r) \in SUBSET Places
BY DEF Asked, Places

LEMMA AskedIf ==
  ASSUME NEW files \in Files, NEW r, NEW d \in DayNumbers, NEW i \in 1..Len(files[d].lines)
  PROVE  <<d, i>> \in Asked(files, r) <=> Matches(files[d].lines[i], r)
<1>1. i \in 1..MaxLines /\ i <= Len(files[d].lines)
  <2>1. Len(files[d].lines) \in 0..MaxLines
    BY FilesTyped
  <2>2. QED
    BY <2>1, QueryAssumption
<1>2. QED
  BY <1>1 DEF Asked

\* A place before which the same lines are asked for has been reached as well.
LEMMA SameFound ==
  ASSUME NEW results, NEW files, NEW asked, NEW total, NEW p, NEW q,
         FoundSoFar(results, files, asked, p, total), EarlierThan(p, asked) = EarlierThan(q, asked)
  PROVE  FoundSoFar(results, files, asked, q, total)
BY DEF FoundSoFar, Reached

\* Nothing is asked for on a day: the next one has the same lines before it.
LEMMA DayWithout ==
  ASSUME NEW asked \in SUBSET Places, NEW d \in Nat, NEW i \in Nat,
         \A p \in asked : p[1] = d => p[2] < i
  PROVE  EarlierThan(<<d + 1, 1>>, asked) = EarlierThan(<<d, i>>, asked)
<1>1. ASSUME NEW p \in asked
      PROVE  p \in EarlierThan(<<d + 1, 1>>, asked) <=> p \in EarlierThan(<<d, i>>, asked)
  <2>1. p[1] \in Nat /\ p[2] \in Nat /\ p[2] >= 1
    BY PlacesTyped
  <2>2. p[1] < d + 1 \/ (p[1] = d + 1 /\ p[2] < 1) <=> p[1] < d \/ (p[1] = d /\ p[2] < i)
    BY <2>1
  <2>3. QED
    BY <2>2 DEF EarlierThan
<1>2. EarlierThan(<<d + 1, 1>>, asked) \subseteq asked /\ EarlierThan(<<d, i>>, asked) \subseteq asked
  BY DEF EarlierThan
<1>3. QED
  BY <1>1, <1>2

\* The walk past a line that is not asked for.
LEMMA LineWithout ==
  ASSUME NEW asked \in SUBSET Places, NEW d \in Nat, NEW i \in Nat, <<d, i>> \notin asked
  PROVE  EarlierThan(<<d, i + 1>>, asked) = EarlierThan(<<d, i>>, asked)
<1>1. ASSUME NEW p \in asked
      PROVE  p \in EarlierThan(<<d, i + 1>>, asked) <=> p \in EarlierThan(<<d, i>>, asked)
  <2>1. p[1] \in Nat /\ p[2] \in Nat /\ p = <<p[1], p[2]>>
    BY PlacesTyped
  <2>2. ~(p[1] = d /\ p[2] = i)
    BY <2>1
  <2>3. p[1] < d \/ (p[1] = d /\ p[2] < i + 1) <=> p[1] < d \/ (p[1] = d /\ p[2] < i)
    BY <2>1, <2>2
  <2>4. QED
    BY <2>3 DEF EarlierThan
<1>2. EarlierThan(<<d, i + 1>>, asked) \subseteq asked /\ EarlierThan(<<d, i>>, asked) \subseteq asked
  BY DEF EarlierThan
<1>3. QED
  BY <1>1, <1>2

\* A file whose first line is too late or whose last line is too early.
LEMMA OutsideIsEmpty ==
  ASSUME NEW files \in Files, NEW r \in Requests, NEW d \in DayNumbers, Outside(files[d].lines, r),
         NEW p \in Asked(files, r)
  PROVE  p[1] # d
<1> SUFFICES ASSUME p[1] = d PROVE FALSE
  OBVIOUS
<1>1. PICK lines : lines = files[d].lines
  OBVIOUS
<1>2. PICK n \in Nat : n = Len(lines)
  BY <1>1, FilesTyped
<1>3. PICK i \in 1..n : i = p[2] /\ Matches(lines[i], r)
  BY <1>1, <1>2, AskedPlaces
<1>4. r.from <= lines[i].time /\ lines[i].time <= r.to
  BY <1>3 DEF Matches, MatchesTime
<1>5. /\ lines \in Seq(StoredLines(d)) /\ \A j \in 1..n : lines[j].time \in Int
      /\ \A j, k \in 1..n : j < k => lines[j].time <= lines[k].time
  BY <1>1, <1>2, FilesTyped DEF LogLines
<1>6. 1 \in 1..n /\ n \in 1..n /\ lines # <<>> /\ Head(lines) = lines[1] /\ Last(lines) = lines[n]
  <2>1. n >= 1 /\ Len(lines) = n
    BY <1>2, <1>3
  <2>2. lines # <<>> /\ Head(lines) = lines[1]
    BY <1>5, <2>1
  <2>3. QED
    BY <2>1, <2>2, <1>2 DEF Last
<1>7. lines[1].time <= lines[i].time /\ lines[i].time <= lines[n].time
  <2>1. (1 < i \/ i = 1) /\ (i < n \/ i = n)
    BY <1>2, <1>3
  <2>2. QED
    BY <1>3, <1>5, <1>6, <2>1
<1>8. lines[1].time > r.to \/ lines[n].time < r.from
  BY <1>1, <1>6 DEF Outside
<1>9. r.from \in Int /\ r.to \in Int /\ lines[1].time \in Int /\ lines[n].time \in Int /\ lines[i].time \in Int
  BY <1>3, <1>5, <1>6, AskedForTyped
<1>10. QED
  BY <1>4, <1>7, <1>8, <1>9

\* processFiles goes on to the next file.
LEMMA FileStep ==
  ASSUME NEW files \in Files, NEW c, NEW total, Progress(c, files, total), c.step = "file",
         NEW next, next = IF c.day > DayOf(c.request.to) \/ total >= LogLimit
                          THEN [c EXCEPT !.step = "done"]
                          ELSE IF Outside(files[c.day].lines, c.request) THEN [c EXCEPT !.day = @ + 1]
                          ELSE [c EXCEPT !.step = "line", !.line = 1, !.chunk = <<>>]
  PROVE  Progress(next, files, total)
<1>1. PICK r \in Requests, d \in 1..(Days + 1), results \in Seq(LogLines) :
        r = c.request /\ d = c.day /\ results = c.results
  BY DEF Progress, QueryRecs
<1>2. PICK asked \in SUBSET Places : asked = Asked(files, r)
  BY AskedSubset
<1>3. c \in QueryRecs /\ FoundSoFar(results, files, asked, <<d, 1>>, total) /\ d \in Nat
  BY <1>1, <1>2 DEF Progress
<1>4. DayOf(r.to) \in DayNumbers /\ DayOf(r.to) \in Nat
  BY AskedForTyped DEF DayNumbers
<1>5. \A p \in asked : p \in Places /\ p[1] \in Nat /\ p[1] <= DayOf(r.to)
  BY <1>2, AskedPlaces, PlacesTyped
<1>6. CASE d > DayOf(r.to) \/ total >= LogLimit
  <2>1. next = [c EXCEPT !.step = "done"]
    BY <1>1, <1>6
  <2>2. next \in QueryRecs /\ next.step = "done" /\ next.request = r /\ next.results = results
    BY <1>1, <1>3, <2>1 DEF QueryRecs
  <2>3. Answers(results, files, asked)
    <3>1. CASE total >= LogLimit
      BY <1>3, <3>1, QueryAssumption DEF FoundSoFar
    <3>2. CASE total < LogLimit
      <4>1. Reached(results, files, asked, <<d, 1>>) /\ Len(results) <= LogLimit
        BY <1>3, <3>2 DEF FoundSoFar
      <4>2. \A p \in asked : p[1] < d
        <5>1. total \in Int /\ d > DayOf(r.to)
          BY <1>3, <1>6, <3>2, QueryAssumption DEF FoundSoFar
        <5>2. QED
          BY <1>3, <1>4, <1>5, <5>1
      <4>3. EarlierThan(<<d, 1>>, asked) = asked
        BY <4>2 DEF EarlierThan
      <4>4. QED
        BY <1>3, <4>1, <4>3, ReachedAnswers
    <3>3. QED
      BY <1>3, <3>1, <3>2, QueryAssumption DEF FoundSoFar
  <2>4. QED
    BY <1>2, <2>2, <2>3 DEF Progress
<1>7. CASE ~(d > DayOf(r.to) \/ total >= LogLimit)
  <2>1. d \in DayNumbers
    BY <1>4, <1>7, QueryAssumption DEF DayNumbers
  <2>2. CASE Outside(files[d].lines, r)
    <3>1. next = [c EXCEPT !.day = d + 1]
      BY <1>1, <1>7, <2>2
    <3>2. /\ next.step = "file" /\ next.request = r /\ next.results = results
          /\ next.day = d + 1 /\ next.chunk = c.chunk /\ next.line = c.line
      BY <1>1, <1>3, <3>1 DEF QueryRecs
    <3>3. next \in QueryRecs
      <4>1. d + 1 \in Int
        OBVIOUS
      <4>2. QED
        BY <1>3, <3>1, <4>1 DEF QueryRecs
    <3>4. EarlierThan(<<d + 1, 1>>, asked) = EarlierThan(<<d, 1>>, asked)
      <4>1. \A p \in asked : p[1] # d
        BY <1>2, <2>1, <2>2, OutsideIsEmpty
      <4>2. QED
        BY <1>3, <4>1, DayWithout
    <3>5. FoundSoFar(results, files, asked, <<d + 1, 1>>, total)
      BY <1>3, <3>4, SameFound
    <3>6. d + 1 \in 1..(Days + 1)
      BY <2>1, QueryAssumption DEF DayNumbers
    <3>7. QED
      BY <1>2, <3>3, <3>2, <3>5, <3>6 DEF Progress
  <2>3. CASE ~Outside(files[d].lines, r)
    <3>1. next = [c EXCEPT !.step = "line", !.line = 1, !.chunk = <<>>]
      BY <1>1, <1>7, <2>3
    <3>2. /\ next.step = "line" /\ next.request = r /\ next.results = results
          /\ next.day = d /\ next.line = 1 /\ next.chunk = <<>>
      BY <1>1, <1>3, <3>1 DEF QueryRecs
    <3>3. next \in QueryRecs
      <4>1. <<>> \in Seq(LogLines) /\ 1 \in Int
        OBVIOUS
      <4>2. QED
        BY <1>3, <3>1, <4>1 DEF QueryRecs
    <3>4. results \o <<>> = results
      OBVIOUS
    <3>5. 1 \in 1..(Len(files[d].lines) + 1)
      <4>1. Len(files[d].lines) \in Nat
        BY <2>1, FilesTyped
      <4>2. QED
        BY <4>1
    <3>6. QED
      BY <1>2, <1>3, <2>1, <3>3, <3>2, <3>4, <3>5 DEF Progress
  <2>4. QED
    BY <2>2, <2>3
<1>8. QED
  BY <1>6, <1>7

\* Two lists of lines one after the other, and one more line behind them.
LEMMA LinesJoined ==
  ASSUME NEW s \in Seq(LogLines), NEW t \in Seq(LogLines), NEW line \in LogLines
  PROVE  /\ s \o t \in Seq(LogLines) /\ Append(t, line) \in Seq(LogLines)
         /\ s \o Append(t, line) = Append(s \o t, line) /\ s \o <<>> = s
         /\ Len(Append(s \o t, line)) = Len(s \o t) + 1
<1>1. s \o t \in Seq(LogLines) /\ Append(t, line) \in Seq(LogLines)
  OBVIOUS
<1>2. s \o Append(t, line) = Append(s \o t, line)
  OBVIOUS
<1>3. s \o <<>> = s
  OBVIOUS
<1>4. Len(Append(s \o t, line)) = Len(s \o t) + 1
  BY <1>1
<1>5. QED
  BY <1>1, <1>2, <1>3, <1>4

\* A count below the limit stays within it with one more.
LEMMA BelowLimit ==
  ASSUME NEW n \in Nat, n < LogLimit
  PROVE  n + 1 \in 0..LogLimit
BY QueryAssumption

\* processChunk goes on to the next line; the count is of this query alone.
LEMMA LineStep ==
  ASSUME NEW files \in Files, NEW c, NEW total, Progress(c, files, total), c.step = "line",
         total < LogLimit, c.line <= Len(files[c.day].lines), NEW next, NEW count,
         IF Matches(files[c.day].lines[c.line], c.request)
         THEN count = total + 1 /\ next = [c EXCEPT !.line = @ + 1,
                                                    !.chunk = Append(@, files[c.day].lines[c.line])]
         ELSE count = total /\ next = [c EXCEPT !.line = @ + 1]
  PROVE  Progress(next, files, count)
<1>1. PICK r \in Requests, d \in DayNumbers, i \in Int,
           results \in Seq(LogLines), chunk \in Seq(LogLines) :
        /\ r = c.request /\ d = c.day /\ i = c.line /\ results = c.results /\ chunk = c.chunk
        /\ i \in 1..(Len(files[d].lines) + 1)
  BY DEF Progress, QueryRecs
<1>2. PICK asked \in SUBSET Places : asked = Asked(files, r)
  BY AskedSubset
<1>3. c \in QueryRecs /\ FoundSoFar(results \o chunk, files, asked, <<d, i>>, total)
  BY <1>1, <1>2 DEF Progress
<1>4. PICK last \in Nat : last = Len(files[d].lines)
  <2>1. Len(files[d].lines) \in Nat
    BY FilesTyped
  <2>2. QED
    BY <2>1
<1>5. i \in Nat /\ i \in 1..last /\ i + 1 \in 1..(last + 1) /\ i + 1 \in Nat
  <2>1. i \in 1..(last + 1) /\ i <= last
    BY <1>1, <1>4
  <2>2. QED
    BY <2>1
<1>6. d \in Nat /\ total \in Nat /\ total < LogLimit
  BY <1>3, QueryAssumption DEF FoundSoFar, DayNumbers
<1>7. PICK line \in LogLines : line = files[d].lines[i]
  <2>1. i \in 1..Len(files[d].lines)
    BY <1>4, <1>5
  <2>2. QED
    BY <2>1, FilesTyped
<1>8. /\ Reached(results \o chunk, files, asked, <<d, i>>) /\ Len(results \o chunk) = total
      /\ results \o chunk \in Seq(LogLines)
  BY <1>3, <1>4, <1>5, <1>6, LinesJoined, <1>7 DEF FoundSoFar
<1>9. CASE Matches(line, r)
  <2>1. PICK longer \in Seq(LogLines), all \in Seq(LogLines) :
          /\ longer = Append(chunk, line) /\ all = Append(results \o chunk, line)
          /\ results \o longer = all /\ Len(all) = total + 1
    <3>1. /\ Append(chunk, line) \in Seq(LogLines) /\ Append(results \o chunk, line) \in Seq(LogLines)
          /\ results \o Append(chunk, line) = Append(results \o chunk, line)
      BY <1>8, LinesJoined
    <3>2. Len(Append(results \o chunk, line)) = total + 1
      BY <1>8, LinesJoined
    <3>3. QED
      BY <3>1, <3>2
  <2>2. count = total + 1 /\ next = [c EXCEPT !.line = i + 1, !.chunk = longer]
    BY <1>1, <1>7, <1>9, <2>1
  <2>3. next \in QueryRecs
    <3>1. c \in QueryRecs /\ i + 1 \in Int
      BY <1>3
    <3>2. QED
      BY <2>2, <3>1 DEF QueryRecs
  <2>4. /\ next.step = "line" /\ next.request = r /\ next.results = results
        /\ next.day = d /\ next.line = i + 1 /\ next.chunk = longer
    BY <1>1, <1>3, <2>2 DEF QueryRecs
  <2>5. Reached(all, files, asked, <<d, i + 1>>)
    <3>1. <<d, i>> \in asked
      BY <1>2, <1>4, <1>5, <1>6, <1>7, <1>9, AskedIf
    <3>2. Reached(Append(results \o chunk, line), files, asked, <<d, i + 1>>)
      BY <1>4, <1>5, <1>6, <1>7, <1>8, <3>1, ReachedNext
    <3>3. QED
      BY <2>1, <3>2
  <2>6. Len(all) = count /\ count \in 0..LogLimit
    <3>1. total + 1 \in 0..LogLimit
      BY <1>6, BelowLimit
    <3>2. QED
      BY <2>1, <2>2, <3>1
  <2>7. count = LogLimit => Answers(all, files, asked)
    <3>1. i + 1 \in Nat /\ (count = LogLimit => Len(all) <= LogLimit)
      BY <1>4, <1>5, <1>6, <2>6, QueryAssumption
    <3>2. QED
      BY <1>4, <1>5, <1>6, <2>5, <2>6, <3>1, ReachedAnswers
  <2>8. FoundSoFar(next.results \o next.chunk, files, asked, <<d, i + 1>>, count)
    BY <2>1, <2>4, <2>5, <2>6, <2>7 DEF FoundSoFar
  <2>9. QED
    BY <1>2, <1>4, <1>5, <2>3, <2>4, <2>8 DEF Progress
<1>10. CASE ~Matches(line, r)
  <2>1. count = total /\ next = [c EXCEPT !.line = i + 1]
    BY <1>1, <1>7, <1>10
  <2>2. next \in QueryRecs
    <3>1. c \in QueryRecs /\ i + 1 \in Int
      BY <1>3
    <3>2. QED
      BY <2>1, <3>1 DEF QueryRecs
  <2>3. /\ next.step = "line" /\ next.request = r /\ next.results = results
        /\ next.day = d /\ next.line = i + 1 /\ next.chunk = chunk
    BY <1>1, <1>3, <2>1 DEF QueryRecs
  <2>4. <<d, i>> \notin asked
    BY <1>2, <1>4, <1>5, <1>6, <1>7, <1>10, AskedIf
  <2>5. EarlierThan(<<d, i + 1>>, asked) = EarlierThan(<<d, i>>, asked)
    BY <1>4, <1>5, <1>6, <2>4, LineWithout
  <2>6. FoundSoFar(next.results \o next.chunk, files, asked, <<d, i + 1>>, count)
    BY <1>3, <2>1, <2>3, <2>5, SameFound
  <2>7. QED
    BY <1>2, <1>4, <1>5, <2>2, <2>3, <2>6 DEF Progress
<1>11. QED
  BY <1>9, <1>10

\* The chunk of a complete file ends: its lines join the results.
LEMMA ChunkStep ==
  ASSUME NEW files \in Files, NEW c, NEW total, Progress(c, files, total), c.step = "line",
         total >= LogLimit \/ c.line > Len(files[c.day].lines), NEW next,
         next = [c EXCEPT !.step = "file", !.day = @ + 1, !.chunk = <<>>, !.results = @ \o c.chunk]
  PROVE  Progress(next, files, total)
<1>1. PICK r \in Requests, d \in DayNumbers, i \in Int,
           results \in Seq(LogLines), chunk \in Seq(LogLines) :
        /\ r = c.request /\ d = c.day /\ i = c.line /\ results = c.results /\ chunk = c.chunk
        /\ i \in 1..(Len(files[d].lines) + 1)
  BY DEF Progress, QueryRecs
<1>2. PICK asked \in SUBSET Places : asked = Asked(files, r)
  BY AskedSubset
<1>3. c \in QueryRecs /\ FoundSoFar(results \o chunk, files, asked, <<d, i>>, total)
  BY <1>1, <1>2 DEF Progress
<1>4. d \in Nat /\ i \in Nat /\ d + 1 \in 1..(Days + 1) /\ Len(files[d].lines) \in Nat /\ total \in Nat
  <2>1. Len(files[d].lines) \in Nat /\ d \in Nat
    BY FilesTyped
  <2>2. d + 1 \in 1..(Days + 1)
    BY <2>1, QueryAssumption DEF DayNumbers
  <2>3. total \in Nat
    BY <1>3, QueryAssumption DEF FoundSoFar
  <2>4. QED
    BY <1>1, <2>1, <2>2, <2>3
<1>5. PICK list \in Seq(LogLines) : list = results \o chunk
  <2>1. results \o chunk \in Seq(LogLines)
    OBVIOUS
  <2>2. QED
    BY <2>1
<1>6. next = [c EXCEPT !.step = "file", !.day = d + 1, !.chunk = <<>>, !.results = list]
  BY <1>1, <1>5
<1>7. next \in QueryRecs
  <2>1. <<>> \in Seq(LogLines) /\ d + 1 \in Int
    BY <1>4
  <2>2. QED
    BY <1>3, <1>5, <1>6, <2>1 DEF QueryRecs
<1>8. /\ next.step = "file" /\ next.request = r /\ next.results = list
      /\ next.day = d + 1 /\ next.chunk = <<>>
  BY <1>1, <1>3, <1>6 DEF QueryRecs
<1>9. FoundSoFar(list, files, asked, <<d + 1, 1>>, total)
  <2>1. CASE total >= LogLimit
    BY <1>3, <1>5, <2>1, QueryAssumption DEF FoundSoFar
  <2>2. CASE total < LogLimit
    <3>1. i = Len(files[d].lines) + 1
      <4>1. ~(total >= LogLimit)
        BY <1>4, <2>2, QueryAssumption
      <4>2. i > Len(files[d].lines) /\ i \in 1..(Len(files[d].lines) + 1)
        BY <1>1, <4>1
      <4>3. QED
        BY <1>4, <4>2
    <3>2. ASSUME NEW p \in asked, p[1] = d PROVE p[2] < i
      <4>1. p[2] \in 1..Len(files[d].lines)
        BY <1>2, <3>2, AskedPlaces
      <4>2. QED
        BY <1>4, <3>1, <4>1
    <3>3. EarlierThan(<<d + 1, 1>>, asked) = EarlierThan(<<d, i>>, asked)
      BY <1>4, <3>2, DayWithout
    <3>4. QED
      BY <1>3, <1>5, <3>3, SameFound
  <2>3. QED
    BY <1>4, <2>1, <2>2, QueryAssumption
<1>10. QED
  BY <1>2, <1>4, <1>7, <1>8, <1>9 DEF Progress

\* A step of a query under way leaves the others alone, whatever it does.
LEMMA StepOfOne ==
  ASSUME QueryIInv, NEW q \in Queries, q \in Active, UNCHANGED <<tqFiles, tqAlone>>, NEW next,
         tqQuery' = [tqQuery EXCEPT ![q] = next],
         q \in tqAlone => Going(next, tqFiles, tqTotal')
  PROVE  QueryIInv'
<1>1. /\ tqFiles \in Files /\ tqQuery = [p \in Queries |-> tqQuery[p]] /\ tqAlone \subseteq Queries
      /\ \A p \in tqAlone : tqAlone = {p} /\ Active \subseteq {p}
      /\ tqFiles' = tqFiles /\ tqAlone' = tqAlone
  BY DEF QueryIInv
<1>2. tqQuery' = [p \in Queries |-> tqQuery'[p]] /\ \A p \in Queries : tqQuery'[p] = IF p = q THEN next ELSE tqQuery[p]
  BY <1>1
<1>3. ASSUME NEW p \in tqAlone PROVE p = q /\ Active' \subseteq {p}
  <2>1. p = q
    BY <1>1, <1>3
  <2>2. Active' \subseteq Active \cup {q}
    BY <1>2 DEF Active
  <2>3. QED
    BY <1>1, <1>3, <2>1, <2>2
<1>4. ASSUME NEW p \in tqAlone PROVE Going(tqQuery'[p], tqFiles, tqTotal')
  BY <1>1, <1>2, <1>3, <1>4
<1>5. QED
  BY <1>1, <1>2, <1>3, <1>4 DEF QueryIInv

\* The record of a query that has just begun.
LEMMA NewRecord ==
  ASSUME NEW R, NEW S, NEW r \in R, NEW d \in Int
  PROVE  [step |-> "file", request |-> r, day |-> d, line |-> 0, chunk |-> <<>>, results |-> <<>>]
           \in [step : {"idle", "file", "line", "done"}, request : R, day : Int, line : Int,
                chunk : Seq(S), results : Seq(S)]
<1>1. PICK e \in Seq(S) : e = <<>>
  <2>1. <<>> \in Seq(S)
    OBVIOUS
  <2>2. QED
    BY <2>1
<1>2. PICK s \in {"idle", "file", "line", "done"} : s = "file"
  OBVIOUS
<1>3. [step |-> s, request |-> r, day |-> d, line |-> 0, chunk |-> e, results |-> e]
        \in [step : {"idle", "file", "line", "done"}, request : R, day : Int, line : Int,
             chunk : Seq(S), results : Seq(S)]
  OBVIOUS
<1>4. QED
  BY <1>1, <1>2, <1>3

LEMMA NewRecordFields ==
  ASSUME NEW r, NEW c,
         c = [NoQuery EXCEPT !.step = "file", !.request = r, !.day = DayOf(r.from)]
  PROVE  /\ c.step = "file" /\ c.request = r /\ c.day = DayOf(r.from)
         /\ c.chunk = <<>> /\ c.results = <<>>
BY DEF NoQuery

\* A query that begins alone starts with nothing found and nothing before its first day.
LEMMA BeginProgress ==
  ASSUME NEW files \in Files, NEW r \in Requests, NEW c,
         c = [NoQuery EXCEPT !.step = "file", !.request = r, !.day = DayOf(r.from)]
  PROVE  Progress(c, files, 0)
<1>1. PICK asked \in SUBSET Places : asked = Asked(files, r)
  BY AskedSubset
<1>2. PICK d \in DayNumbers : d = DayOf(r.from) /\ d \in Int /\ d \in 1..(Days + 1)
  <2>1. DayOf(r.from) \in DayNumbers
    BY AskedForTyped
  <2>2. QED
    BY <2>1, QueryAssumption DEF DayNumbers
<1>3. c = [step |-> "file", request |-> r, day |-> d, line |-> 0, chunk |-> <<>>, results |-> <<>>]
  BY <1>2 DEF NoQuery
<1>4. c \in QueryRecs
  <2>1. PICK R : R = Requests \cup {NoQuery.request}
    OBVIOUS
  <2>2. r \in R /\ d \in Int
    BY <1>2, <2>1
  <2>3. c \in [step : {"idle", "file", "line", "done"}, request : R, day : Int, line : Int,
               chunk : Seq(LogLines), results : Seq(LogLines)]
    <3>1. [step |-> "file", request |-> r, day |-> d, line |-> 0, chunk |-> <<>>, results |-> <<>>]
            \in [step : {"idle", "file", "line", "done"}, request : R, day : Int, line : Int,
                 chunk : Seq(LogLines), results : Seq(LogLines)]
      BY <2>2, NewRecord
    <3>2. QED
      BY <1>3, <3>1
  <2>4. QED
    BY <2>1, <2>3 DEF QueryRecs
<1>5. EarlierThan(<<d, 1>>, asked) = {}
  <2>1. ASSUME NEW p \in asked PROVE ~(p[1] < d \/ (p[1] = d /\ p[2] < 1))
    <3>1. d <= p[1] /\ p[1] \in Nat /\ p[2] \in 1..MaxLines
      BY <1>1, <1>2, AskedPlaces, PlacesTyped
    <3>2. QED
      BY <1>2, <3>1, QueryAssumption
  <2>2. QED
    BY <2>1 DEF EarlierThan
<1>6. Reached(<<>>, files, asked, <<d, 1>>)
  <2>1. Cardinality({}) = 0 /\ Len(<<>>) = 0
    BY FS_EmptySet
  <2>2. QED
    BY <1>5, <2>1 DEF Reached
<1>7. FoundSoFar(<<>>, files, asked, <<d, 1>>, 0)
  BY <1>6, QueryAssumption DEF FoundSoFar
<1>8. /\ c.step = "file" /\ c.request = r /\ c.day = d /\ c.chunk = <<>> /\ c.results = <<>>
  BY <1>2, NewRecordFields
<1>9. QED
  BY <1>1, <1>2, <1>4, <1>7, <1>8 DEF Progress

\* A line that matches is one the search finds.
LEMMA MatchIsFound ==
  ASSUME NEW c, NEW i, Matches(tqFiles[c.day].lines[i], c.request)
  PROVE  Searched(c, i)
BY DEF Matches, Searched

LEMMA QueryKeeps == QueryIInv /\ [QueryNext]_queryVars => QueryIInv'
<1> SUFFICES ASSUME QueryIInv, [QueryNext]_queryVars PROVE QueryIInv'
  OBVIOUS
<1>1. CASE UNCHANGED queryVars
  BY <1>1 DEF queryVars, QueryIInv, Active
<1>2. ASSUME NEW q \in Queries, NEW r \in Requests, BeginQuery(q, r) PROVE QueryIInv'
  <2>1. PICK c : c = [NoQuery EXCEPT !.step = "file", !.request = r, !.day = DayOf(r.from)]
    OBVIOUS
  <2>2. /\ tqQuery' = [tqQuery EXCEPT ![q] = c] /\ tqTotal' = 0 /\ tqFiles' = tqFiles
        /\ tqAlone' = IF Active = {} THEN {q} ELSE {}
    BY <1>2, <2>1 DEF BeginQuery, ResetTotal
  <2>3. tqFiles \in Files /\ tqQuery = [p \in Queries |-> tqQuery[p]]
    BY DEF QueryIInv
  <2>4. tqQuery' = [p \in Queries |-> tqQuery'[p]] /\ \A p \in Queries : tqQuery'[p] = IF p = q THEN c ELSE tqQuery[p]
    BY <2>2, <2>3
  <2>5. Active' \subseteq Active \cup {q}
    BY <2>4 DEF Active
  <2>6. Going(c, tqFiles, 0)
    <3>1. Progress(c, tqFiles, 0)
      BY <2>1, <2>3, BeginProgress
    <3>2. IsQuery(c)
      BY <2>1 DEF NoQuery, IsQuery
    <3>3. QED
      BY <3>1, <3>2 DEF Going
  <2>7. ASSUME NEW p \in tqAlone'
        PROVE  p = q /\ tqAlone' = {p} /\ Active' \subseteq {p}
    BY <2>2, <2>5, <2>7
  <2>8. ASSUME NEW p \in tqAlone' PROVE Going(tqQuery'[p], tqFiles, tqTotal')
    BY <2>2, <2>4, <2>6, <2>7, <2>8
  <2>9. QED
    BY <2>2, <2>3, <2>4, <2>7, <2>8 DEF QueryIInv
<1>3. ASSUME NEW q \in Queries, NextFile(q) PROVE QueryIInv'
  <2>1. PICK c : c = tqQuery[q]
    OBVIOUS
  <2>2. PICK next : next = IF c.day > DayOf(c.request.to) \/ tqTotal >= LogLimit
                          THEN [c EXCEPT !.step = "done"]
                          ELSE IF Outside(tqFiles[c.day].lines, c.request) THEN [c EXCEPT !.day = @ + 1]
                          ELSE [c EXCEPT !.step = "line", !.line = 1, !.chunk = <<>>]
    OBVIOUS
  <2>3. /\ c.step = "file" /\ tqQuery' = [tqQuery EXCEPT ![q] = next]
        /\ UNCHANGED <<tqFiles, tqTotal, tqAlone>>
    BY <1>3, <2>1, <2>2 DEF NextFile
  <2>4. q \in Active
    BY <2>1, <2>3 DEF Active
  <2>5. ASSUME q \in tqAlone PROVE Going(next, tqFiles, tqTotal')
    <3>1. Going(c, tqFiles, tqTotal) /\ tqFiles \in Files
      BY <2>1, <2>5 DEF QueryIInv
    <3>2. IsQuery(next) /\ next.request = c.request
      BY <2>2, <3>1 DEF Going, IsQuery
    <3>3. ASSUME Progress(c, tqFiles, tqTotal) PROVE Progress(next, tqFiles, tqTotal')
      BY <2>2, <2>3, <3>1, <3>3, FileStep
    <3>4. QED
      BY <3>1, <3>2, <3>3 DEF Going
  <2>6. QED
    BY <2>3, <2>4, <2>5, StepOfOne
<1>4. ASSUME NEW q \in Queries, NextLine(q) PROVE QueryIInv'
  <2>1. PICK c : c = tqQuery[q]
    OBVIOUS
  <2>2. PICK lines : lines = tqFiles[c.day].lines
    OBVIOUS
  <2>3. /\ c.step = "line" /\ tqTotal < LogLimit /\ c.line <= Len(lines)
        /\ UNCHANGED <<tqFiles, tqAlone>>
    BY <1>4, <2>1, <2>2 DEF NextLine
  <2>4. q \in Active
    BY <2>1, <2>3 DEF Active
  <2>5. PICK next : /\ next = IF Matches(lines[c.line], c.request)
                              THEN [c EXCEPT !.line = @ + 1, !.chunk = Append(@, lines[c.line])]
                              ELSE [c EXCEPT !.line = @ + 1]
    OBVIOUS
  <2>6. tqQuery' = [tqQuery EXCEPT ![q] = next]
    <3>1. CASE Matches(lines[c.line], c.request)
      <4>1. tqQuery' = [tqQuery EXCEPT ![q].line = @ + 1, ![q].chunk = Append(@, lines[c.line])]
        BY <1>4, <2>1, <2>2, <3>1, MatchIsFound DEF NextLine
      <4>2. QED
        BY <2>1, <2>5, <3>1, <4>1
    <3>2. CASE ~Matches(lines[c.line], c.request)
      <4>1. tqQuery' = [tqQuery EXCEPT ![q].line = @ + 1]
        BY <1>4, <2>1, <2>2, <3>2 DEF NextLine
      <4>2. QED
        BY <2>1, <2>5, <3>2, <4>1
    <3>3. QED
      BY <3>1, <3>2
  <2>7. ASSUME q \in tqAlone PROVE Going(next, tqFiles, tqTotal')
    <3>1. Going(c, tqFiles, tqTotal) /\ tqFiles \in Files
      BY <2>1, <2>7 DEF QueryIInv
    <3>2. Active = {q}
      BY <2>4, <2>7 DEF QueryIInv
    <3>3. Counted = {tqTotal + 1}
      <4>1. Cardinality(Active) = 1
        BY <3>2, FS_Singleton
      <4>2. QED
        BY <4>1 DEF Counted
    <3>4. tqTotal' = IF Matches(lines[c.line], c.request) THEN tqTotal + 1 ELSE tqTotal
      <4>1. CASE Matches(lines[c.line], c.request)
        <5>1. tqTotal' \in Counted
          BY <1>4, <2>1, <2>2, <4>1, MatchIsFound DEF NextLine
        <5>2. QED
          BY <3>3, <4>1, <5>1
      <4>2. CASE ~Matches(lines[c.line], c.request)
        BY <1>4, <2>1, <2>2, <4>2 DEF NextLine
      <4>3. QED
        BY <4>1, <4>2
    <3>5. ASSUME Progress(c, tqFiles, tqTotal) PROVE Progress(next, tqFiles, tqTotal')
      BY <2>2, <2>3, <2>5, <3>1, <3>4, <3>5, LineStep
    <3>6. IsQuery(next) /\ next.request = c.request
      BY <2>5, <3>1 DEF Going, IsQuery
    <3>7. QED
      BY <3>1, <3>5, <3>6 DEF Going
  <2>8. QED
    BY <2>3, <2>4, <2>6, <2>7, StepOfOne
<1>5. ASSUME NEW q \in Queries, ChunkEnds(q) PROVE QueryIInv'
  <2>1. PICK c : c = tqQuery[q]
    OBVIOUS
  <2>2. /\ c.step = "line" /\ (tqTotal >= LogLimit \/ c.line > Len(tqFiles[c.day].lines))
        /\ UNCHANGED <<tqFiles, tqTotal, tqAlone>>
    BY <1>5, <2>1 DEF ChunkEnds
  <2>3. PICK next : next = [c EXCEPT !.step = "file", !.day = @ + 1, !.chunk = <<>>,
                                     !.results = IF SearchPanics(c) THEN @ ELSE @ \o c.chunk]
    OBVIOUS
  <2>4. tqQuery' = [tqQuery EXCEPT ![q] = next]
    BY <1>5, <2>1, <2>3 DEF ChunkEnds
  <2>5. q \in Active
    BY <2>1, <2>2 DEF Active
  <2>6. ASSUME q \in tqAlone PROVE Going(next, tqFiles, tqTotal')
    <3>1. Going(c, tqFiles, tqTotal) /\ tqFiles \in Files
      BY <2>1, <2>6 DEF QueryIInv
    <3>2. IsQuery(next) /\ next.request = c.request
      BY <2>3, <3>1 DEF Going, IsQuery
    <3>3. ASSUME AllComplete(tqFiles), c.request.message # "empty", Progress(c, tqFiles, tqTotal)
          PROVE  Progress(next, tqFiles, tqTotal')
      <4>1. ~SearchPanics(c)
        BY <2>2, <3>1, <3>3 DEF SearchPanics, AllComplete, Progress
      <4>2. next = [c EXCEPT !.step = "file", !.day = @ + 1, !.chunk = <<>>, !.results = @ \o c.chunk]
        BY <2>3, <4>1
      <4>3. QED
        BY <2>2, <3>1, <3>3, <4>2, ChunkStep
    <3>4. QED
      BY <3>1, <3>2, <3>3 DEF Going
  <2>7. QED
    BY <2>2, <2>4, <2>5, <2>6, StepOfOne
<1>6. QED
  BY <1>1, <1>2, <1>3, <1>4, <1>5 DEF QueryNext

LEMMA QueryInitInv == QueryInit => QueryIInv
<1> SUFFICES ASSUME QueryInit PROVE QueryIInv
  OBVIOUS
<1>1. tqFiles \in Files /\ tqAlone = {} /\ tqQuery = [q \in Queries |-> NoQuery]
  BY DEF QueryInit, QueryStart
<1>2. tqQuery = [q \in Queries |-> tqQuery[q]]
  BY <1>1
<1>3. QED
  BY <1>1, <1>2 DEF QueryIInv

LEMMA QueryIInvSuffices == QueryIInv => QueryExact
BY DEF QueryIInv, QueryExact, Going, Progress, AllComplete

\* A query that no other overlapped, and that does not ask for a message with ""
\* in it, answers what was asked for, in order and up to the limit, for any files
\* of complete lines, any number of days and any limit (text_query.go QueryLogs,
\* processFiles, processChunk).
THEOREM QueriesAnswer == QuerySpec => []QueryExact
BY QueryInitInv, QueryKeeps, QueryIInvSuffices, PTL DEF QuerySpec
=============================================================================
