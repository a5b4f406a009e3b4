-------------------------- MODULE Matching_proofs ---------------------------
(***************************************************************************)
(* The matchers decide the meaning of their patterns, whatever the value   *)
(* and the pattern; an accepted expression knows its variables.            *)
(*                                                                         *)
(* For the loop of matchIterative: from each place it comes to, the rest   *)
(* still matches as the whole did, and it never comes back to a place.     *)
(***************************************************************************)
EXTENDS EvalGen, Pipeline_proofs

-----------------------------------------------------------------------------
(* Wildcard, by the equations of its recursion.                            *)

\* The places before expr[j] from where the value is a text, if rest is behind it.
PlacesAt(value, expr, j, rest) ==
  IF expr[j] = "*" THEN {i \in 1..(Len(value) + 1) : \E k \in rest : i <= k}
  ELSE {i \in 1..Len(value) : value[i] = expr[j] /\ i + 1 \in rest}

IsTexts(f, value, expr) ==
  /\ f \in [1..(Len(expr) + 1) -> SUBSET (1..(Len(value) + 1))]
  /\ f[Len(expr) + 1] = {Len(value) + 1}
  /\ \A j \in 1..Len(expr) : f[j] = PlacesAt(value, expr, j, f[j + 1])

LEMMA TextsExist ==
  ASSUME NEW A, NEW value \in Seq(A), NEW expr \in Seq(A)
  PROVE  \E f : IsTexts(f, value, expr)
<1>1. PICK n \in Nat, last \in Nat : n = Len(expr) /\ last = Len(value) + 1
  OBVIOUS
<1> DEFINE Sets == SUBSET (1..last)
           Step == [m \in 1..n |-> [R \in Sets |-> PlacesAt(value, expr, n + 1 - m, R)]]
<1>2. Step \in Steps(n, Sets)
  <2>1. ASSUME NEW j, NEW R \in Sets PROVE PlacesAt(value, expr, j, R) \in Sets
    BY <1>1 DEF PlacesAt
  <2>2. QED
    BY <2>1 DEF Steps
<1>3. PICK z \in Sets : z = {last}
  <2>1. last \in 1..last
    BY <1>1
  <2>2. QED
    BY <2>1
<1>4. PICK g : g \in Walks(n, Sets, z, Step)
  <2> HIDE DEF Step, Sets
  <2>1. QED
    BY <1>2, WalkExists
<1>5. g \in [0..n -> Sets] /\ g[0] = z /\ \A m \in 1..n : g[m] = PlacesAt(value, expr, n + 1 - m, g[m - 1])
  <2>1. g \in [0..n -> Sets] /\ g[0] = z /\ \A m \in 1..n : g[m] = Step[m][g[m - 1]]
    BY <1>4 DEF Walks
  <2>2. ASSUME NEW m \in 1..n PROVE g[m - 1] \in Sets
    <3>1. m - 1 \in 0..n
      OBVIOUS
    <3>2. QED
      BY <2>1, <3>1
  <2>3. QED
    BY <2>1, <2>2
<1>6. PICK f : f = [j \in 1..(n + 1) |-> g[n + 1 - j]]
  OBVIOUS
<1>7. f \in [1..(n + 1) -> Sets] /\ f[n + 1] = z
  <2>1. \A j \in 1..(n + 1) : n + 1 - j \in 0..n
    OBVIOUS
  <2>2. n + 1 \in 1..(n + 1) /\ (n + 1) - (n + 1) = 0
    OBVIOUS
  <2>3. QED
    BY <1>5, <1>6, <2>1, <2>2
<1>8. ASSUME NEW j \in 1..n PROVE f[j] = PlacesAt(value, expr, j, f[j + 1])
  <2>1. n + 1 - j \in 1..n /\ n + 1 - (n + 1 - j) = j /\ (n + 1 - j) - 1 = n + 1 - (j + 1)
        /\ j \in 1..(n + 1) /\ j + 1 \in 1..(n + 1)
    OBVIOUS
  <2>2. f[j] = g[n + 1 - j] /\ f[j + 1] = g[n + 1 - (j + 1)]
    BY <1>6, <2>1
  <2>3. g[n + 1 - j] = PlacesAt(value, expr, j, g[n + 1 - (j + 1)])
    BY <1>5, <2>1
  <2>4. QED
    BY <2>2, <2>3
<1>9. QED
  BY <1>1, <1>3, <1>7, <1>8 DEF IsTexts

LEMMA WildcardTexts ==
  ASSUME NEW A, NEW value \in Seq(A), NEW expr \in Seq(A)
  PROVE  \E f : IsTexts(f, value, expr) /\ (Wildcard(value, expr) <=> 1 \in f[1])
<1> DEFINE Recurs(f) == f = [j \in 1..(Len(expr) + 1) |->
             IF j > Len(expr) THEN {Len(value) + 1}
             ELSE IF expr[j] = "*" THEN {i \in 1..(Len(value) + 1) : \E k \in f[j + 1] : i <= k}
             ELSE {i \in 1..Len(value) : value[i] = expr[j] /\ i + 1 \in f[j + 1]}]
<1>1. PICK n \in Nat : n = Len(expr)
  OBVIOUS
<1>2. ASSUME NEW f, IsTexts(f, value, expr) PROVE Recurs(f)
  <2>1. f = [j \in 1..(n + 1) |-> f[j]]
    BY <1>1, <1>2 DEF IsTexts
  <2>2. ASSUME NEW j \in 1..(n + 1)
        PROVE f[j] = IF j > n THEN {Len(value) + 1}
             ELSE IF expr[j] = "*" THEN {i \in 1..(Len(value) + 1) : \E k \in f[j + 1] : i <= k}
             ELSE {i \in 1..Len(value) : value[i] = expr[j] /\ i + 1 \in f[j + 1]}
    <3>1. CASE j > n
      <4>1. j = n + 1
        BY <3>1
      <4>2. QED
        BY <1>1, <1>2, <3>1, <4>1 DEF IsTexts
    <3>2. CASE ~(j > n)
      <4>1. j \in 1..n
        BY <3>2
      <4>2. QED
        BY <1>1, <1>2, <3>2, <4>1 DEF IsTexts, PlacesAt
    <3>3. QED
      BY <3>1, <3>2
  <2>3. QED
    BY <1>1, <2>1, <2>2, Zenon
<1>3. ASSUME NEW f, Recurs(f) PROVE IsTexts(f, value, expr)
  <2>1. ASSUME NEW j \in 1..(n + 1)
        PROVE f[j] = IF j > n THEN {Len(value) + 1}
             ELSE IF expr[j] = "*" THEN {i \in 1..(Len(value) + 1) : \E k \in f[j + 1] : i <= k}
             ELSE {i \in 1..Len(value) : value[i] = expr[j] /\ i + 1 \in f[j + 1]}
    BY <1>1, <1>3, Zenon
  <2>2. f = [j \in 1..(n + 1) |-> f[j]]
    BY <1>1, <1>3, Zenon
  <2>3. \A j \in 1..n : j \in 1..(n + 1) /\ ~(j > n)
    OBVIOUS
  <2>4. \A j \in 1..n : f[j] = PlacesAt(value, expr, j, f[j + 1])
    BY <2>1, <2>3 DEF PlacesAt
  <2>5. n + 1 \in 1..(n + 1) /\ n + 1 > n
    OBVIOUS
  <2>6. f[n + 1] = {Len(value) + 1}
    BY <2>1, <2>5
  <2>7. ASSUME NEW j \in 1..(n + 1) PROVE f[j] \in SUBSET (1..(Len(value) + 1))
    <3>1. CASE j \in 1..n
      <4>1. ASSUME NEW R PROVE PlacesAt(value, expr, j, R) \in SUBSET (1..(Len(value) + 1))
        BY DEF PlacesAt
      <4>2. QED
        BY <2>4, <3>1, <4>1
    <3>2. CASE j = n + 1
      BY <2>6, <3>2
    <3>3. QED
      BY <3>1, <3>2
  <2>8. QED
    BY <1>1, <2>2, <2>4, <2>6, <2>7 DEF IsTexts
<1>4. PICK c : c = CHOOSE f : Recurs(f)
  OBVIOUS
<1>5. Recurs(c)
  <2> HIDE DEF Recurs
  <2>1. \E f : Recurs(f)
    BY <1>2, TextsExist
  <2>2. QED
    BY <1>4, <2>1
<1>6. Wildcard(value, expr) <=> 1 \in c[1]
  BY <1>4, Zenon DEF Wildcard
<1>7. QED
  BY <1>3, <1>5, <1>6

LEMMA TextsTyped ==
  ASSUME NEW A, NEW value \in Seq(A), NEW expr \in Seq(A), NEW f, IsTexts(f, value, expr)
  PROVE  /\ Len(value) \in Nat /\ Len(expr) \in Nat
         /\ \A j \in 1..(Len(expr) + 1) : f[j] \subseteq 1..(Len(value) + 1)
         /\ f[Len(expr) + 1] = {Len(value) + 1}
         /\ \A j \in 1..Len(expr) :
              /\ expr[j] = "*" => f[j] = {i \in 1..(Len(value) + 1) : \E k \in f[j + 1] : i <= k}
              /\ expr[j] # "*" => f[j] = {i \in 1..Len(value) : value[i] = expr[j] /\ i + 1 \in f[j + 1]}
<1>1. Len(value) \in Nat /\ Len(expr) \in Nat
  OBVIOUS
<1>2. f \in [1..(Len(expr) + 1) -> SUBSET (1..(Len(value) + 1))] /\ f[Len(expr) + 1] = {Len(value) + 1}
  BY DEF IsTexts
<1>3. \A j \in 1..Len(expr) : f[j] = PlacesAt(value, expr, j, f[j + 1])
  BY DEF IsTexts
<1>4. \A j \in 1..(Len(expr) + 1) : f[j] \in SUBSET (1..(Len(value) + 1))
  BY <1>2
<1>5. \A j \in 1..Len(expr) :
        /\ expr[j] = "*" => f[j] = {i \in 1..(Len(value) + 1) : \E k \in f[j + 1] : i <= k}
        /\ expr[j] # "*" => f[j] = {i \in 1..Len(value) : value[i] = expr[j] /\ i + 1 \in f[j + 1]}
  BY <1>3 DEF PlacesAt
<1>6. QED
  BY <1>1, <1>2, <1>4, <1>5

LEMMA StarPlace ==
  ASSUME NEW A, NEW value \in Seq(A), NEW expr \in Seq(A), NEW f, IsTexts(f, value, expr),
         NEW j \in 1..Len(expr), expr[j] = "*"
  PROVE  f[j] = {i \in 1..(Len(value) + 1) : \E k \in f[j + 1] : i <= k}
BY DEF IsTexts, PlacesAt

LEMMA LiteralPlace ==
  ASSUME NEW A, NEW value \in Seq(A), NEW expr \in Seq(A), NEW f, IsTexts(f, value, expr),
         NEW j \in 1..Len(expr), expr[j] # "*"
  PROVE  f[j] = {i \in 1..Len(value) : value[i] = expr[j] /\ i + 1 \in f[j + 1]}
BY DEF IsTexts, PlacesAt

\* n characters from expr[j] on have no star; the value has them from i on.
NoStars(expr, j, n) == \A t \in 0..(n - 1) : expr[j + t] # "*"
SameRun(value, i, expr, j, n) == \A t \in 0..(n - 1) : value[i + t] = expr[j + t]

\* Characters that are no stars stand for themselves.
LEMMA LiteralRun ==
  ASSUME NEW A, NEW value \in Seq(A), NEW expr \in Seq(A), NEW f, IsTexts(f, value, expr),
         NEW i \in 1..(Len(value) + 1), NEW j \in 1..(Len(expr) + 1), NEW n \in Nat,
         j + n <= Len(expr) + 1, NoStars(expr, j, n)
  PROVE  i \in f[j] <=> i + n \in f[j + n] /\ SameRun(value, i, expr, j, n)
<1>1. PICK v \in Nat, e \in Nat : v = Len(value) /\ e = Len(expr)
  BY TextsTyped
<1>2. /\ \A k \in 1..(e + 1) : f[k] \subseteq 1..(v + 1)
      /\ \A k \in 1..e : expr[k] # "*" =>
           f[k] = {x \in 1..v : value[x] = expr[k] /\ x + 1 \in f[k + 1]}
  <2>1. ASSUME NEW k \in 1..(e + 1) PROVE f[k] \subseteq 1..(v + 1)
    BY <1>1, TextsTyped
  <2>2. ASSUME NEW k \in 1..e, expr[k] # "*"
        PROVE  f[k] = {x \in 1..v : value[x] = expr[k] /\ x + 1 \in f[k + 1]}
    <3>1. f[k] = {x \in 1..Len(value) : value[x] = expr[k] /\ x + 1 \in f[k + 1]}
      BY <1>1, <2>2, LiteralPlace
    <3>2. QED
      BY <1>1, <3>1
  <2>3. QED
    BY <2>1, <2>2
<1>3. i \in 1..(v + 1) /\ j \in 1..(e + 1) /\ j + n <= e + 1 /\ i \in Nat /\ j \in Nat
  BY <1>1
<1> DEFINE Run(m) == i + m \in f[j + m] /\ \A t \in 0..(m - 1) : value[i + t] = expr[j + t]
           T == {m \in 0..n : i \in f[j] <=> Run(m)}
<1>4. 0 \in T
  BY <1>3
<1>5. ASSUME NEW m \in 1..n, m - 1 \in T PROVE m \in T
  <2>1. PICK x \in Nat, y \in Nat : x = i + (m - 1) /\ y = j + (m - 1) /\ x + 1 = i + m /\ y + 1 = j + m
    BY <1>3
  <2>2. y \in 1..e /\ y + 1 \in 1..(e + 1) /\ expr[y] # "*"
    <3>1. m - 1 \in 0..(n - 1) /\ m - 1 >= 0 /\ m <= n
      OBVIOUS
    <3>2. y \in 1..e /\ y + 1 \in 1..(e + 1)
      BY <1>3, <2>1, <3>1
    <3>3. expr[j + (m - 1)] # "*"
      BY <3>1 DEF NoStars
    <3>4. QED
      BY <2>1, <3>2, <3>3
  <2>3. x \in f[y] <=> (value[x] = expr[y] /\ x + 1 \in f[y + 1])
    <3>1. x + 1 \in f[y + 1] => x \in 1..v
      <4>1. x + 1 \in f[y + 1] => x + 1 \in 1..(v + 1)
        BY <1>2, <2>2
      <4>2. x >= 1
        BY <1>3, <2>1
      <4>3. QED
        BY <4>1, <4>2
    <3>2. QED
      BY <1>2, <2>2, <3>1
  <2>4. i \in f[j] <=> (x \in f[y] /\ \A t \in 0..(m - 2) : value[i + t] = expr[j + t])
    <3>1. m - 1 - 1 = m - 2
      OBVIOUS
    <3>2. QED
      BY <1>5, <2>1, <3>1
  <2>5. (\A t \in 0..(m - 1) : value[i + t] = expr[j + t]) <=>
          (value[x] = expr[y] /\ \A t \in 0..(m - 2) : value[i + t] = expr[j + t])
    <3>1. \A t \in 0..(m - 1) : t = m - 1 \/ t \in 0..(m - 2)
      OBVIOUS
    <3>2. m - 1 \in 0..(m - 1) /\ 0..(m - 2) \subseteq 0..(m - 1)
      OBVIOUS
    <3>3. QED
      BY <2>1, <3>1, <3>2
  <2>6. i \in f[j] <=> Run(m)
    BY <2>1, <2>3, <2>4, <2>5
  <2>7. m \in 0..n
    OBVIOUS
  <2>8. QED
    BY <2>6, <2>7, Zenon
<1>6. n \in T
  <2> HIDE DEF T
  <2>1. 0..n \subseteq T
    BY <1>4, <1>5, CountUp
  <2>2. QED
    BY <2>1
<1>7. QED
  BY <1>6 DEF SameRun

\* The empty rest of a value is a text of stars only.
LEMMA StarsOnly ==
  ASSUME NEW A, NEW value \in Seq(A), NEW expr \in Seq(A), NEW f, IsTexts(f, value, expr),
         NEW j \in 1..(Len(expr) + 1)
  PROVE  Len(value) + 1 \in f[j] <=> \A i \in j..Len(expr) : expr[i] = "*"
<1>1. PICK e \in Nat, last \in Nat : e = Len(expr) /\ last = Len(value) + 1 /\ last \in 1..last
      /\ Len(value) = last - 1
  BY TextsTyped
<1>2. f[e + 1] = {last} /\ \A k \in 1..(e + 1) : f[k] \subseteq 1..last
  BY <1>1, TextsTyped
<1>3. ASSUME NEW k \in 1..e, expr[k] = "*"
      PROVE  last \in f[k] <=> \E x \in f[k + 1] : last <= x
  <2>1. f[k] = {i \in 1..(Len(value) + 1) : \E x \in f[k + 1] : i <= x}
    BY <1>1, <1>3, StarPlace
  <2>2. QED
    BY <1>1, <2>1
<1>4. ASSUME NEW k \in 1..e, expr[k] # "*" PROVE last \notin f[k]
  <2>1. f[k] = {i \in 1..Len(value) : value[i] = expr[k] /\ i + 1 \in f[k + 1]}
    BY <1>1, <1>4, LiteralPlace
  <2>2. last \notin 1..(last - 1)
    OBVIOUS
  <2>3. QED
    BY <1>1, <2>1, <2>2
<1> DEFINE Only(k) == last \in f[k] <=> \A i \in k..e : expr[i] = "*"
           T == {m \in 0..e : Only(e + 1 - m)}
<1>5. 0 \in T
  BY <1>2
<1>6. ASSUME NEW m \in 1..e, m - 1 \in T PROVE m \in T
  <2>1. PICK k \in 1..e : k = e + 1 - m /\ k + 1 = e + 1 - (m - 1) /\ k + 1 \in 1..(e + 1)
    OBVIOUS
  <2>2. Only(k + 1)
    BY <1>6, <2>1
  <2>3. (\A i \in k..e : expr[i] = "*") <=> (expr[k] = "*" /\ \A i \in (k + 1)..e : expr[i] = "*")
    <3>1. \A i \in k..e : i = k \/ i \in (k + 1)..e
      OBVIOUS
    <3>2. k \in k..e /\ (k + 1)..e \subseteq k..e
      OBVIOUS
    <3>3. QED
      BY <3>1, <3>2
  <2>4. (\E x \in f[k + 1] : last <= x) <=> last \in f[k + 1]
    <3>1. \A x \in f[k + 1] : x <= last /\ x \in Int
      BY <1>2, <2>1
    <3>2. QED
      BY <3>1
  <2>5. Only(k)
    <3>1. CASE expr[k] = "*"
      <4>1. last \in f[k] <=> last \in f[k + 1]
        BY <1>3, <2>4, <3>1
      <4>2. QED
        BY <2>2, <2>3, <3>1, <4>1
    <3>2. CASE expr[k] # "*"
      BY <1>4, <2>3, <3>2
    <3>3. QED
      BY <3>1, <3>2
  <2>6. QED
    BY <2>1, <2>5
<1>7. 0..e \subseteq T
  <2> HIDE DEF T
  <2>1. QED
    BY <1>5, <1>6, CountUp
<1>8. e + 1 - j \in T /\ e + 1 - (e + 1 - j) = j
  <2>1. e + 1 - j \in 0..e /\ e + 1 - (e + 1 - j) = j
    BY <1>1
  <2>2. QED
    BY <1>7, <2>1
<1>9. QED
  BY <1>1, <1>8

-----------------------------------------------------------------------------
(* matchIterative: every turn keeps what a match of the whole depends on.  *)

\* A place the loop may be at: behind the last star it has passed no other.
OnPath(s, value, expr) ==
  /\ s \in MatchStates /\ s.v \in 1..(Len(value) + 1) /\ s.e \in 1..(Len(expr) + 1)
  /\ s.backV <= s.v /\ s.backE < s.e
  /\ s.backE # 0 => /\ s.v - s.backV = s.e - s.backE - 1
                    /\ \A i \in (s.backE + 1)..(s.e - 1) : expr[i] # "*"

\* The rest matches from here, or from a later place behind the last star.
Promising(s, f) == s.v \in f[s.e] \/ (s.backE # 0 /\ \E k \in f[s.backE + 1] : k > s.backV)

\* The order in which the loop comes to its places.
Further(s, t) ==
  \/ s.backE < t.backE
  \/ s.backE = t.backE /\ (s.backV < t.backV \/ (s.backV = t.backV /\ s.e < t.e))

LEMMA Places4 ==
  ASSUME NEW value, NEW expr, NEW s, OnPath(s, value, expr)
  PROVE  /\ s.v \in Nat /\ s.e \in Nat /\ s.backV \in Nat /\ s.backE \in Nat
         /\ s \in MatchStates
         /\ s.v \in 1..(Len(value) + 1) /\ s.e \in 1..(Len(expr) + 1)
         /\ s.backV <= s.v /\ s.backE < s.e
         /\ s.backE # 0 => s.v - s.backV = s.e - s.backE - 1
         /\ s.backE # 0 => \A i \in (s.backE + 1)..(s.e - 1) : expr[i] # "*"
BY DEF OnPath, MatchStates

\* A text that begins later behind the star comes later to the place in expr.
LEMMA LaterStart ==
  ASSUME NEW A, NEW value \in Seq(A), NEW expr \in Seq(A), NEW f, IsTexts(f, value, expr),
         NEW s, OnPath(s, value, expr), s.backE # 0, NEW k \in f[s.backE + 1], k > s.backV
  PROVE  \E x \in f[s.e] : x > s.v
<1>1. PICK v \in Nat, e \in Nat, bv \in Nat, be \in Nat :
        v = s.v /\ e = s.e /\ bv = s.backV /\ be = s.backE
  BY Places4
<1>2. /\ e \in 1..(Len(expr) + 1) /\ be < e /\ v - bv = e - be - 1
      /\ \A i \in (be + 1)..(e - 1) : expr[i] # "*"
  <2>1. /\ s.e \in 1..(Len(expr) + 1) /\ s.backE < s.e /\ s.v - s.backV = s.e - s.backE - 1
        /\ \A i \in (s.backE + 1)..(s.e - 1) : expr[i] # "*"
    BY Places4
  <2>2. QED
    BY <1>1, <2>1
<1>3. PICK last \in Nat, top \in Nat : last = Len(value) + 1 /\ top = Len(expr) + 1
  BY TextsTyped
<1>4. PICK n \in Nat : n = e - be - 1
  BY <1>2
<1>5. PICK j \in 1..top : j = be + 1 /\ j + n = e /\ j + n <= top
  BY <1>2, <1>3, <1>4
<1>6. k \in f[j] /\ k > bv /\ k \in 1..last
  <2>1. f[j] \subseteq 1..last
    BY <1>3, TextsTyped
  <2>2. QED
    BY <1>1, <1>5, <2>1
<1>7. NoStars(expr, j, n)
  <2>1. \A t \in 0..(n - 1) : j + t \in (be + 1)..(e - 1)
    BY <1>5
  <2>2. QED
    BY <1>2, <2>1 DEF NoStars
<1>8. k + n \in f[j + n]
  <2>1. k \in 1..(Len(value) + 1) /\ j \in 1..(Len(expr) + 1) /\ j + n <= Len(expr) + 1
    BY <1>3, <1>5, <1>6
  <2>2. QED
    BY <1>6, <1>7, <2>1, LiteralRun
<1>9. k + n > v
  BY <1>2, <1>4, <1>6
<1>10. QED
  BY <1>1, <1>5, <1>8, <1>9

\* At the end of the value only stars may be left.
LEMMA LoopEnd ==
  ASSUME NEW A, NEW value \in Seq(A), NEW expr \in Seq(A), NEW f, IsTexts(f, value, expr),
         NEW s, OnPath(s, value, expr), s.v > Len(value)
  PROVE  Promising(s, f) <=> \A i \in s.e..Len(expr) : expr[i] = "*"
<1>1. s.v = Len(value) + 1 /\ s.e \in 1..(Len(expr) + 1)
  <2>1. Len(value) \in Nat /\ s.v \in 1..(Len(value) + 1) /\ s.v \in Nat /\ s.e \in 1..(Len(expr) + 1)
    BY TextsTyped, Places4
  <2>2. QED
    BY <2>1
<1>2. s.v \in f[s.e] <=> \A i \in s.e..Len(expr) : expr[i] = "*"
  <2>1. PICK e \in 1..(Len(expr) + 1) : e = s.e
    BY <1>1
  <2>2. Len(value) + 1 \in f[e] <=> \A i \in e..Len(expr) : expr[i] = "*"
    BY StarsOnly
  <2>3. QED
    BY <1>1, <2>1, <2>2
<1>3. ASSUME s.backE # 0, NEW k \in f[s.backE + 1], k > s.backV PROVE FALSE
  <2>1. PICK x \in f[s.e] : x > s.v
    BY <1>3, LaterStart
  <2>2. x \in 1..(Len(value) + 1) /\ Len(value) \in Nat
    BY <1>1, TextsTyped
  <2>3. QED
    BY <1>1, <2>1, <2>2
<1>4. QED
  BY <1>2, <1>3 DEF Promising

\* Where a turn goes.
LEMMA TurnFields ==
  ASSUME NEW value, NEW expr, NEW s \in MatchStates
  PROVE  LET t == LoopTurn(value, expr, s) IN
         /\ t \in MatchStates
         /\ AtStar(expr, s) =>
              t.v = s.v /\ t.e = s.e + 1 /\ t.backV = s.v /\ t.backE = s.e
         /\ ~AtStar(expr, s) /\ AtEqual(value, expr, s) =>
              t.v = s.v + 1 /\ t.e = s.e + 1 /\ t.backV = s.backV /\ t.backE = s.backE
         /\ ~AtStar(expr, s) /\ ~AtEqual(value, expr, s) =>
              t.v = s.backV + 1 /\ t.e = s.backE + 1 /\ t.backV = s.backV + 1 /\ t.backE = s.backE
<1>1. /\ s.v \in Nat /\ s.e \in Nat /\ s.backV \in Nat /\ s.backE \in Nat
      /\ s.v + 1 \in Nat /\ s.e + 1 \in Nat /\ s.backV + 1 \in Nat /\ s.backE + 1 \in Nat
  BY DEF MatchStates
<1>2. CASE AtStar(expr, s)
  BY <1>1, <1>2 DEF LoopTurn, MatchStates
<1>3. CASE ~AtStar(expr, s) /\ AtEqual(value, expr, s)
  BY <1>1, <1>3 DEF LoopTurn, MatchStates
<1>4. CASE ~AtStar(expr, s) /\ ~AtEqual(value, expr, s)
  BY <1>1, <1>4 DEF LoopTurn, MatchStates
<1>5. QED
  BY <1>2, <1>3, <1>4

LEMMA StarTurn ==
  ASSUME NEW A, NEW value \in Seq(A), NEW expr \in Seq(A), NEW f, IsTexts(f, value, expr),
         NEW s, OnPath(s, value, expr), s.v <= Len(value), AtStar(expr, s),
         NEW t, t = LoopTurn(value, expr, s)
  PROVE  OnPath(t, value, expr) /\ Further(s, t) /\ (Promising(t, f) <=> Promising(s, f))
<1>1. PICK v \in Nat, e \in Nat, bv \in Nat, be \in Nat :
        v = s.v /\ e = s.e /\ bv = s.backV /\ be = s.backE
  BY Places4
<1>2. PICK len \in Nat, top \in Nat : len = Len(value) /\ top = Len(expr)
  BY TextsTyped
<1>3. v \in 1..len /\ e \in 1..top /\ be < e /\ expr[e] = "*"
  <2>1. s.v \in 1..(Len(value) + 1) /\ s.e \in 1..(Len(expr) + 1) /\ s.backE < s.e
    BY Places4
  <2>2. s.e <= Len(expr) /\ expr[s.e] = "*"
    BY DEF AtStar
  <2>3. QED
    BY <1>1, <1>2, <2>1, <2>2
<1>4. t \in MatchStates /\ t.v = v /\ t.e = e + 1 /\ t.backV = v /\ t.backE = e
  <2>1. s \in MatchStates
    BY Places4
  <2>2. t \in MatchStates /\ t.v = s.v /\ t.e = s.e + 1 /\ t.backV = s.v /\ t.backE = s.e
    BY <2>1, TurnFields
  <2>3. QED
    BY <1>1, <2>2
<1>5. OnPath(t, value, expr)
  <2>1. t.v \in 1..(len + 1) /\ t.e \in 1..(top + 1) /\ t.backV <= t.v /\ t.backE < t.e
        /\ t.v - t.backV = t.e - t.backE - 1 /\ (t.backE + 1)..(t.e - 1) = {}
    BY <1>3, <1>4
  <2>2. QED
    BY <1>2, <1>4, <2>1 DEF OnPath
<1>6. Further(s, t)
  BY <1>1, <1>3, <1>4 DEF Further
<1>7. f[e] = {i \in 1..(len + 1) : \E k \in f[e + 1] : i <= k} /\ f[e + 1] \subseteq 1..(len + 1)
  <2>1. f[e] = {i \in 1..(Len(value) + 1) : \E k \in f[e + 1] : i <= k}
    BY <1>2, <1>3, StarPlace
  <2>2. e + 1 \in 1..(Len(expr) + 1)
    BY <1>2, <1>3
  <2>3. f[e + 1] \subseteq 1..(Len(value) + 1)
    BY <2>2, TextsTyped
  <2>4. QED
    BY <1>2, <2>1, <2>3
<1>8. Promising(t, f) <=> v \in f[e]
  <2>1. Promising(t, f) <=> (v \in f[e + 1] \/ \E k \in f[e + 1] : k > v)
    BY <1>3, <1>4 DEF Promising
  <2>2. (v \in f[e + 1] \/ \E k \in f[e + 1] : k > v) <=> \E k \in f[e + 1] : v <= k
    BY <1>7
  <2>3. v \in f[e] <=> \E k \in f[e + 1] : v <= k
    BY <1>3, <1>7
  <2>4. QED
    BY <2>1, <2>2, <2>3
<1>9. Promising(s, f) <=> v \in f[e]
  <2>1. ASSUME s.backE # 0, NEW k \in f[s.backE + 1], k > s.backV PROVE v \in f[e]
    <3>1. PICK x \in f[e] : x > v
      BY <1>1, <2>1, LaterStart
    <3>2. PICK y \in f[e + 1] : x <= y
      BY <1>7
    <3>3. v <= y
      BY <1>7, <3>1, <3>2
    <3>4. QED
      BY <1>3, <1>7, <3>3
  <2>2. QED
    BY <1>1, <2>1 DEF Promising
<1>10. QED
  BY <1>5, <1>6, <1>8, <1>9

LEMMA EqualTurn ==
  ASSUME NEW A, NEW value \in Seq(A), NEW expr \in Seq(A), NEW f, IsTexts(f, value, expr),
         NEW s, OnPath(s, value, expr), s.v <= Len(value), ~AtStar(expr, s), AtEqual(value, expr, s),
         NEW t, t = LoopTurn(value, expr, s)
  PROVE  OnPath(t, value, expr) /\ Further(s, t) /\ (Promising(t, f) <=> Promising(s, f))
<1>1. PICK v \in Nat, e \in Nat, bv \in Nat, be \in Nat :
        v = s.v /\ e = s.e /\ bv = s.backV /\ be = s.backE
  BY Places4
<1>2. PICK len \in Nat, top \in Nat : len = Len(value) /\ top = Len(expr)
  BY TextsTyped
<1>3. v \in 1..len /\ e \in 1..top /\ be < e /\ bv <= v /\ expr[e] # "*" /\ expr[e] = value[v]
  <2>1. s.v \in 1..(Len(value) + 1) /\ s.e \in 1..(Len(expr) + 1) /\ s.backE < s.e /\ s.backV <= s.v
    BY Places4
  <2>2. s.e <= Len(expr) /\ expr[s.e] # "*" /\ expr[s.e] = value[s.v]
    BY DEF AtStar, AtEqual
  <2>3. QED
    BY <1>1, <1>2, <2>1, <2>2
<1>4. t \in MatchStates /\ t.v = v + 1 /\ t.e = e + 1 /\ t.backV = bv /\ t.backE = be
  <2>1. s \in MatchStates
    BY Places4
  <2>2. t \in MatchStates /\ t.v = s.v + 1 /\ t.e = s.e + 1 /\ t.backV = s.backV /\ t.backE = s.backE
    BY <2>1, TurnFields
  <2>3. QED
    BY <1>1, <2>2
<1>5. OnPath(t, value, expr)
  <2>1. t.v \in 1..(len + 1) /\ t.e \in 1..(top + 1) /\ t.backV <= t.v /\ t.backE < t.e
    BY <1>3, <1>4
  <2>2. ASSUME be # 0
        PROVE  /\ t.v - t.backV = t.e - t.backE - 1
               /\ \A i \in (t.backE + 1)..(t.e - 1) : expr[i] # "*"
    <3>1. v - bv = e - be - 1 /\ \A i \in (be + 1)..(e - 1) : expr[i] # "*"
      BY <1>1, <2>2, Places4
    <3>2. \A i \in (be + 1)..e : i = e \/ i \in (be + 1)..(e - 1)
      OBVIOUS
    <3>3. (v + 1) - bv = (e + 1) - be - 1 /\ (e + 1) - 1 = e
      BY <3>1
    <3>4. QED
      BY <1>3, <1>4, <3>1, <3>2, <3>3
  <2>3. QED
    BY <1>2, <1>4, <2>1, <2>2 DEF OnPath
<1>6. Further(s, t)
  BY <1>1, <1>4 DEF Further
<1>7. v \in f[e] <=> v + 1 \in f[e + 1]
  <2>1. f[e] = {i \in 1..Len(value) : value[i] = expr[e] /\ i + 1 \in f[e + 1]}
    BY <1>2, <1>3, LiteralPlace
  <2>2. QED
    BY <1>2, <1>3, <2>1
<1>8. QED
  BY <1>1, <1>4, <1>5, <1>6, <1>7 DEF Promising

\* Back to one place further behind the last star.
LEMMA BackTurn ==
  ASSUME NEW A, NEW value \in Seq(A), NEW expr \in Seq(A), NEW f, IsTexts(f, value, expr),
         NEW s, OnPath(s, value, expr), s.v <= Len(value), ~AtStar(expr, s), ~AtEqual(value, expr, s)
  PROVE  /\ s.v \notin f[s.e]
         /\ s.backE # 0 => LET t == LoopTurn(value, expr, s) IN
              OnPath(t, value, expr) /\ Further(s, t) /\ (Promising(t, f) <=> Promising(s, f))
<1>1. PICK v \in Nat, e \in Nat, bv \in Nat, be \in Nat :
        v = s.v /\ e = s.e /\ bv = s.backV /\ be = s.backE
  BY Places4
<1>2. PICK len \in Nat, top \in Nat : len = Len(value) /\ top = Len(expr)
  BY TextsTyped
<1>3. v \in 1..len /\ e \in 1..(top + 1) /\ be < e /\ bv <= v
  <2>1. s.v \in 1..(Len(value) + 1) /\ s.e \in 1..(Len(expr) + 1) /\ s.backE < s.e /\ s.backV <= s.v
    BY Places4
  <2>2. QED
    BY <1>1, <1>2, <2>1
<1>4. v \notin f[e]
  <2>1. CASE e = top + 1
    <3>1. f[e] = {len + 1}
      BY <1>2, <2>1, TextsTyped
    <3>2. QED
      BY <1>3, <3>1
  <2>2. CASE e # top + 1
    <3>1. e \in 1..top /\ expr[e] # "*" /\ expr[e] # value[v]
      <4>1. e \in 1..top
        BY <1>3, <2>2
      <4>2. QED
        BY <1>1, <1>2, <4>1 DEF AtStar, AtEqual
    <3>2. f[e] = {i \in 1..Len(value) : value[i] = expr[e] /\ i + 1 \in f[e + 1]}
      <4>1. e \in 1..Len(expr) /\ expr[e] # "*"
        BY <1>2, <3>1
      <4>2. QED
        BY <4>1, LiteralPlace
    <3>3. QED
      BY <3>1, <3>2
  <2>3. QED
    BY <2>1, <2>2
<1>5. ASSUME be # 0, NEW t, t = LoopTurn(value, expr, s)
      PROVE  OnPath(t, value, expr) /\ Further(s, t) /\ (Promising(t, f) <=> Promising(s, f))
  <2>1. t \in MatchStates /\ t.v = bv + 1 /\ t.e = be + 1 /\ t.backV = bv + 1 /\ t.backE = be
    <3>1. s \in MatchStates
      BY Places4
    <3>2. QED
      BY <1>1, <1>5, <3>1, TurnFields
  <2>2. OnPath(t, value, expr)
    <3>1. t.v \in 1..(len + 1) /\ t.e \in 1..(top + 1) /\ t.backV <= t.v /\ t.backE < t.e
          /\ t.v - t.backV = t.e - t.backE - 1 /\ (t.backE + 1)..(t.e - 1) = {}
      BY <1>3, <2>1
    <3>2. QED
      BY <1>2, <2>1, <3>1 DEF OnPath
  <2>3. Further(s, t)
    BY <1>1, <2>1 DEF Further
  <2>4. f[be + 1] \subseteq 1..(len + 1)
    <3>1. be + 1 \in 1..(Len(expr) + 1)
      BY <1>2, <1>3
    <3>2. QED
      BY <1>2, <3>1, TextsTyped
  <2>5. Promising(t, f) <=> (bv + 1 \in f[be + 1] \/ \E k \in f[be + 1] : k > bv + 1)
    BY <1>5, <2>1 DEF Promising
  <2>6. Promising(s, f) <=> \E k \in f[be + 1] : k > bv
    BY <1>1, <1>4, <1>5 DEF Promising
  <2>7. (bv + 1 \in f[be + 1] \/ \E k \in f[be + 1] : k > bv + 1) <=> \E k \in f[be + 1] : k > bv
    BY <2>4
  <2>8. QED
    BY <2>2, <2>3, <2>5, <2>6, <2>7
<1>6. QED
  BY <1>1, <1>4, <1>5

\* One turn of the loop: it gives up where nothing is promising, or goes on to a
\* place that is as promising, and never comes back to a place.
LEMMA TurnKeeps ==
  ASSUME NEW A, NEW value \in Seq(A), NEW expr \in Seq(A), NEW f, IsTexts(f, value, expr),
         NEW s, OnPath(s, value, expr), s.v <= Len(value)
  PROVE  LET t == LoopTurn(value, expr, s) IN
         IF Stuck(value, expr, s) THEN ~Promising(s, f)
         ELSE OnPath(t, value, expr) /\ Further(s, t) /\ (Promising(t, f) <=> Promising(s, f))
<1>1. PICK t : t = LoopTurn(value, expr, s)
  OBVIOUS
<1>2. CASE AtStar(expr, s)
  BY <1>1, <1>2, StarTurn DEF Stuck
<1>3. CASE ~AtStar(expr, s) /\ AtEqual(value, expr, s)
  BY <1>1, <1>3, EqualTurn DEF Stuck
<1>4. CASE ~AtStar(expr, s) /\ ~AtEqual(value, expr, s)
  <2>1. CASE s.backE # 0
    BY <1>1, <1>4, <2>1, BackTurn DEF Stuck, MayBacktrack
  <2>2. CASE s.backE = 0
    BY <1>4, <2>2, BackTurn DEF Stuck, MayBacktrack, Promising
  <2>3. QED
    BY <2>1, <2>2
<1>5. QED
  BY <1>2, <1>3, <1>4

-----------------------------------------------------------------------------
(* The loop's recursion has a function, though nothing bounds its turns    *)
(* outside its own places: the least set of places it accepts from.        *)

Accepts(A, S, Yes, Go, N) == \A s \in S : s \in A <=> (s \in Yes \/ (s \in Go /\ N[s] \in A))

LEMMA TailRecursion ==
  ASSUME NEW S, NEW Yes \in SUBSET S, NEW Go \in SUBSET S, NEW N \in [Go -> S]
  PROVE  \E A \in SUBSET S : Accepts(A, S, Yes, Go, N)
<1> DEFINE Closed(T) == Yes \subseteq T /\ \A s \in Go : N[s] \in T => s \in T
           A == {s \in S : \A T \in SUBSET S : Closed(T) => s \in T}
<1>1. Closed(A)
  <2>1. Yes \subseteq A
    OBVIOUS
  <2>2. ASSUME NEW s \in Go, N[s] \in A PROVE s \in A
    <3>1. ASSUME NEW T \in SUBSET S, Closed(T) PROVE s \in T
      BY <2>2, <3>1
    <3>2. QED
      BY <3>1
  <2>3. QED
    BY <2>1, <2>2
<1>2. ASSUME NEW s \in A, s \notin Yes, ~(s \in Go /\ N[s] \in A) PROVE FALSE
  <2>1. PICK T : T = A \ {s}
    OBVIOUS
  <2>2. Yes \subseteq T
    BY <1>1, <1>2, <2>1
  <2>3. ASSUME NEW r \in Go, N[r] \in T PROVE r \in T
    <3> HIDE DEF A
    <3>1. N[r] \in A
      BY <2>1, <2>3
    <3>2. r \in A
      BY <1>1, <3>1
    <3>3. r # s
      BY <1>2, <3>1
    <3>4. QED
      BY <2>1, <3>2, <3>3
  <2>4. T \in SUBSET S
    BY <2>1
  <2>5. s \in T
    BY <2>2, <2>3, <2>4
  <2>6. QED
    BY <2>1, <2>5
<1>3. A \in SUBSET S
  OBVIOUS
<1>4. ASSUME NEW s \in S PROVE s \in A <=> (s \in Yes \/ (s \in Go /\ N[s] \in A))
  <2> HIDE DEF A
  <2>1. QED
    BY <1>1, <1>2
<1>5. QED
  <2> HIDE DEF A
  <2>1. QED
    BY <1>3, <1>4 DEF Accepts

\* What the loop answers at a place.
LoopSays(loop, value, expr) ==
  \A s \in MatchStates :
    loop[s] <=> IF s.v > Len(value) THEN \A i \in s.e..Len(expr) : expr[i] = "*"
                ELSE ~Stuck(value, expr, s) /\ loop[LoopTurn(value, expr, s)]

LEMMA LoopAnswers ==
  ASSUME NEW value, NEW expr
  PROVE  \E loop : /\ LoopSays(loop, value, expr)
                   /\ MatchIterative(value, expr) <=> loop[[v |-> 1, e |-> 1, backV |-> 0, backE |-> 0]]
<1> DEFINE Recurs(g) == g = [s \in MatchStates |->
             IF s.v > Len(value) THEN \A i \in s.e..Len(expr) : expr[i] = "*"
             ELSE ~Stuck(value, expr, s) /\ g[LoopTurn(value, expr, s)]]
           Yes == {s \in MatchStates : s.v > Len(value) /\ \A i \in s.e..Len(expr) : expr[i] = "*"}
           Go == {s \in MatchStates : ~(s.v > Len(value)) /\ ~Stuck(value, expr, s)}
           Turn == [s \in Go |-> LoopTurn(value, expr, s)]
<1>1. Turn \in [Go -> MatchStates]
  <2>1. ASSUME NEW s \in Go PROVE LoopTurn(value, expr, s) \in MatchStates
    BY TurnFields
  <2>2. QED
    BY <2>1
<1>2. PICK A \in SUBSET MatchStates : Accepts(A, MatchStates, Yes, Go, Turn)
  <2>1. Yes \in SUBSET MatchStates /\ Go \in SUBSET MatchStates
    OBVIOUS
  <2> HIDE DEF Yes, Go, Turn, Recurs
  <2>2. QED
    BY <1>1, <2>1, TailRecursion
<1>3. PICK g : g = [s \in MatchStates |-> s \in A]
  OBVIOUS
<1>4. ASSUME NEW s \in MatchStates
      PROVE  (s \in A) <=> IF s.v > Len(value) THEN \A i \in s.e..Len(expr) : expr[i] = "*"
                           ELSE ~Stuck(value, expr, s) /\ g[LoopTurn(value, expr, s)]
  <2>1. PICK t \in MatchStates : t = LoopTurn(value, expr, s)
    BY TurnFields
  <2>2. g[t] = (t \in A)
    BY <1>3, <2>1
  <2>3. s \in Go => Turn[s] = t
    BY <2>1
  <2>4. s \in A <=> (s \in Yes \/ (s \in Go /\ t \in A))
    BY <1>2, <2>3 DEF Accepts
  <2>5. QED
    BY <2>1, <2>2, <2>4
<1>5. Recurs(g)
  <2>1. ASSUME NEW s \in MatchStates
        PROVE  (s \in A) = IF s.v > Len(value) THEN \A i \in s.e..Len(expr) : expr[i] = "*"
                           ELSE ~Stuck(value, expr, s) /\ g[LoopTurn(value, expr, s)]
    <3>1. PICK all : all = \A i \in s.e..Len(expr) : expr[i] = "*"
      OBVIOUS
    <3>2. all \in BOOLEAN
      BY <3>1, SMT
    <3>3. PICK t \in MatchStates : t = LoopTurn(value, expr, s)
      BY TurnFields
    <3>4. g[t] = (t \in A)
      BY <1>3, <3>3
    <3>5. (s \in A) <=> IF s.v > Len(value) THEN all ELSE ~Stuck(value, expr, s) /\ t \in A
      BY <1>4, <3>1, <3>3, <3>4, Zenon
    <3>6. CASE s.v > Len(value)
      <4>1. (s \in A) = all
        BY <3>2, <3>5, <3>6, SMT
      <4>2. QED
        BY <3>1, <3>6, <4>1, Zenon
    <3>7. CASE ~(s.v > Len(value))
      <4>1. (s \in A) = (~Stuck(value, expr, s) /\ t \in A)
        BY <3>5, <3>7, SMT
      <4>2. QED
        BY <3>3, <3>4, <3>7, <4>1, Zenon
    <3>8. QED
      BY <3>6, <3>7, Zenon
  <2>2. QED
    BY <1>3, <2>1, Zenon
<1>6. PICK loop : loop = CHOOSE h : Recurs(h)
  OBVIOUS
<1>7. Recurs(loop)
  <2> HIDE DEF Recurs
  <2>1. QED
    BY <1>5, <1>6
<1>8. MatchIterative(value, expr) <=> loop[[v |-> 1, e |-> 1, backV |-> 0, backE |-> 0]]
  BY <1>6, Zenon DEF MatchIterative
<1>9. LoopSays(loop, value, expr)
  <2>1. ASSUME NEW s \in MatchStates
        PROVE  loop[s] = IF s.v > Len(value) THEN \A i \in s.e..Len(expr) : expr[i] = "*"
                         ELSE ~Stuck(value, expr, s) /\ loop[LoopTurn(value, expr, s)]
    BY <1>7, Zenon
  <2>2. QED
    BY <2>1, Zenon DEF LoopSays
<1>10. QED
  BY <1>8, <1>9

LEMMA Greatest ==
  ASSUME NEW S, S # {}, NEW m \in Nat, NEW g \in [S -> 0..m]
  PROVE  \E s \in S : \A t \in S : g[t] <= g[s]
<1>1. PICK d : d = [s \in S |-> m - g[s]]
  OBVIOUS
<1>2. ASSUME NEW s \in S PROVE d[s] \in Nat /\ d[s] = m - g[s] /\ g[s] \in 0..m
  BY <1>1
<1>3. PICK x \in {d[s] : s \in S} : \A y \in {d[s] : s \in S} : ~(y < x)
  <2>1. {d[s] : s \in S} \in SUBSET Nat /\ {d[s] : s \in S} # {}
    BY <1>2
  <2>2. QED
    BY <2>1, LeastNumber
<1>4. PICK s \in S : x = d[s]
  OBVIOUS
<1>5. ASSUME NEW t \in S PROVE g[t] <= g[s]
  <2>1. ~(d[t] < d[s])
    BY <1>3, <1>4
  <2>2. d[t] = m - g[t] /\ d[s] = m - g[s] /\ g[t] \in 0..m /\ g[s] \in 0..m
    BY <1>2
  <2>3. QED
    BY <2>1, <2>2
<1>6. QED
  BY <1>5

\* Among some of the places the loop may be at, one no other is further than.
LEMMA Furthest ==
  ASSUME NEW value, NEW expr, Len(value) \in Nat, Len(expr) \in Nat,
         NEW B, B # {}, \A s \in B : OnPath(s, value, expr)
  PROVE  \E s \in B : \A t \in B : ~Further(s, t)
<1>1. PICK m \in Nat : m >= Len(value) + 1 /\ m >= Len(expr) + 1
  <2>1. \E m \in Nat : m >= Len(value) + 1 /\ m >= Len(expr) + 1
    <3>1. Len(value) + 1 >= Len(expr) + 1 \/ Len(expr) + 1 >= Len(value) + 1
      OBVIOUS
    <3>2. Len(value) + 1 \in Nat /\ Len(expr) + 1 \in Nat
      OBVIOUS
    <3>3. QED
      BY <3>1, <3>2
  <2>2. QED
    BY <2>1
<1>2. ASSUME NEW s \in B PROVE s.backE \in 0..m /\ s.backV \in 0..m /\ s.e \in 0..m
  <2>1. OnPath(s, value, expr)
    OBVIOUS
  <2>2. /\ s.v \in 1..(Len(value) + 1) /\ s.e \in 1..(Len(expr) + 1) /\ s.backV <= s.v /\ s.backE < s.e
        /\ s.backV \in Nat /\ s.backE \in Nat
    BY <2>1, Places4
  <2>3. QED
    BY <1>1, <2>2
<1>3. PICK s1 \in B : \A t \in B : t.backE <= s1.backE
  <2>1. PICK g : g = [s \in B |-> s.backE]
    OBVIOUS
  <2>2. g \in [B -> 0..m]
    BY <1>2, <2>1
  <2>3. PICK s \in B : \A t \in B : g[t] <= g[s]
    BY <2>2, Greatest
  <2>4. QED
    BY <2>1, <2>3
<1>4. PICK C : C = {s \in B : s.backE = s1.backE}
  OBVIOUS
<1>5. PICK s2 \in C : \A t \in C : t.backV <= s2.backV
  <2>1. PICK g : g = [s \in C |-> s.backV]
    OBVIOUS
  <2>2. g \in [C -> 0..m] /\ C # {}
    BY <1>2, <1>4, <2>1
  <2>3. PICK s \in C : \A t \in C : g[t] <= g[s]
    BY <2>2, Greatest
  <2>4. QED
    BY <2>1, <2>3
<1>6. PICK D : D = {s \in C : s.backV = s2.backV}
  OBVIOUS
<1>7. PICK s3 \in D : \A t \in D : t.e <= s3.e
  <2>1. PICK g : g = [s \in D |-> s.e]
    OBVIOUS
  <2>2. g \in [D -> 0..m] /\ D # {}
    BY <1>2, <1>4, <1>6, <2>1
  <2>3. PICK s \in D : \A t \in D : g[t] <= g[s]
    BY <2>2, Greatest
  <2>4. QED
    BY <2>1, <2>3
<1>8. s3 \in B /\ s3.backE = s1.backE /\ s3.backV = s2.backV
  BY <1>4, <1>6
<1>9. ASSUME NEW t \in B, Further(s3, t) PROVE FALSE
  <2>1. /\ s3.backE \in 0..m /\ s3.backV \in 0..m /\ s3.e \in 0..m
        /\ t.backE \in 0..m /\ t.backV \in 0..m /\ t.e \in 0..m
    BY <1>2, <1>8
  <2>2. ~(s3.backE < t.backE)
    BY <1>3, <1>8, <2>1
  <2>3. t.backE = s3.backE
    BY <1>9, <2>2, Zenon DEF Further
  <2>4. t \in C
    BY <1>4, <1>8, <2>3
  <2>5. ~(s3.backV < t.backV)
    BY <1>5, <1>8, <2>1, <2>4
  <2>6. t.backV = s3.backV /\ s3.e < t.e
    BY <1>9, <2>2, <2>5, Zenon DEF Further
  <2>7. t \in D
    BY <1>6, <1>8, <2>4, <2>6
  <2>8. QED
    BY <1>7, <2>1, <2>6, <2>7
<1>10. QED
  BY <1>8, <1>9

\* The loop accepts from where a match of the whole is still to be found.
LEMMA LoopDecides ==
  ASSUME NEW A, NEW value \in Seq(A), NEW expr \in Seq(A), NEW f, IsTexts(f, value, expr),
         NEW loop, LoopSays(loop, value, expr), NEW s, OnPath(s, value, expr)
  PROVE  loop[s] <=> Promising(s, f)
<1>1. Len(value) \in Nat /\ Len(expr) \in Nat
  OBVIOUS
<1> DEFINE B == {r \in MatchStates : OnPath(r, value, expr) /\ ~(loop[r] <=> Promising(r, f))}
<1>2. SUFFICES ASSUME B # {} PROVE FALSE
  <2>1. s \in MatchStates
    BY Places4
  <2>2. QED
    BY <2>1
<1>3. PICK r \in B : \A t \in B : ~Further(r, t)
  <2>1. \A q \in B : OnPath(q, value, expr)
    OBVIOUS
  <2> HIDE DEF B
  <2>2. QED
    BY <1>1, <1>2, <2>1, Furthest
<1>4. r \in MatchStates /\ OnPath(r, value, expr) /\ ~(loop[r] <=> Promising(r, f)) /\ r.v \in Nat
  <2>1. r \in MatchStates /\ OnPath(r, value, expr) /\ ~(loop[r] <=> Promising(r, f))
    OBVIOUS
  <2>2. QED
    BY <2>1, Places4
<1>5. loop[r] <=> IF r.v > Len(value) THEN \A i \in r.e..Len(expr) : expr[i] = "*"
                  ELSE ~Stuck(value, expr, r) /\ loop[LoopTurn(value, expr, r)]
  BY <1>4, Zenon DEF LoopSays
<1>6. CASE r.v > Len(value)
  BY <1>4, <1>5, <1>6, LoopEnd
<1>7. CASE ~(r.v > Len(value))
  <2>1. r.v <= Len(value)
    BY <1>1, <1>4, <1>7
  <2>2. PICK t : t = LoopTurn(value, expr, r)
    OBVIOUS
  <2>3. IF Stuck(value, expr, r) THEN ~Promising(r, f)
        ELSE OnPath(t, value, expr) /\ Further(r, t) /\ (Promising(t, f) <=> Promising(r, f))
    BY <1>4, <2>1, <2>2, TurnKeeps
  <2>4. CASE Stuck(value, expr, r)
    BY <1>4, <1>5, <1>7, <2>3, <2>4
  <2>5. CASE ~Stuck(value, expr, r)
    <3>1. t \in MatchStates
      BY <2>3, <2>5, Places4
    <3>2. ~(loop[t] <=> Promising(t, f))
      BY <1>4, <1>5, <1>7, <2>2, <2>3, <2>5
    <3>3. QED
      BY <1>3, <2>3, <2>5, <3>1, <3>2
  <2>6. QED
    BY <2>4, <2>5
<1>8. QED
  BY <1>6, <1>7

LEMMA IterativeIsWildcard ==
  ASSUME NEW A, NEW value \in Seq(A), NEW expr \in Seq(A)
  PROVE  MatchIterative(value, expr) <=> Wildcard(value, expr)
<1>1. PICK f : IsTexts(f, value, expr) /\ (Wildcard(value, expr) <=> 1 \in f[1])
  BY WildcardTexts
<1>2. PICK s : s = [v |-> 1, e |-> 1, backV |-> 0, backE |-> 0]
  OBVIOUS
<1>3. PICK loop : LoopSays(loop, value, expr) /\ (MatchIterative(value, expr) <=> loop[s])
  BY <1>2, LoopAnswers
<1>4. OnPath(s, value, expr)
  <2>1. 1 \in 1..(Len(value) + 1) /\ 1 \in 1..(Len(expr) + 1) /\ 0 <= 1 /\ 0 < 1
    OBVIOUS
  <2>2. QED
    BY <1>2, <2>1 DEF OnPath, MatchStates
<1>5. Promising(s, f) <=> 1 \in f[1]
  BY <1>2 DEF Promising
<1>6. loop[s] <=> Promising(s, f)
  BY <1>1, <1>3, <1>4, LoopDecides
<1>7. QED
  BY <1>1, <1>3, <1>5, <1>6

-----------------------------------------------------------------------------
(* MatchSingle and Any: texts with stars at their ends only.               *)

LEMMA PieceOf ==
  ASSUME NEW A, NEW s \in Seq(A), NEW i \in Nat, NEW n \in Nat, i + n <= Len(s)
  PROVE  /\ SubSeq(s, i + 1, i + n) \in Seq(A) /\ Len(SubSeq(s, i + 1, i + n)) = n
         /\ \A k \in 1..n : SubSeq(s, i + 1, i + n)[k] = s[i + k]
<1>1. \A k \in (i + 1)..(i + n) : s[k] \in A
  OBVIOUS
<1>2. i + 1 \in Int /\ i + n \in Int
  OBVIOUS
<1>3. /\ SubSeq(s, i + 1, i + n) \in Seq(A)
      /\ Len(SubSeq(s, i + 1, i + n)) = IF i + 1 <= i + n THEN (i + n) - (i + 1) + 1 ELSE 0
      /\ \A k \in 1..((i + n) - (i + 1) + 1) : SubSeq(s, i + 1, i + n)[k] = s[(i + 1) + k - 1]
  BY <1>1, <1>2, SubSeqProperties
<1>4. (i + n) - (i + 1) + 1 = n /\ \A k \in 1..n : (i + 1) + k - 1 = i + k
  OBVIOUS
<1>5. n = 0 \/ i + 1 <= i + n
  OBVIOUS
<1>6. (n = 0 /\ ~(i + 1 <= i + n)) \/ i + 1 <= i + n
  OBVIOUS
<1>7. QED
  BY <1>3, <1>4, <1>6

\* A piece of s is t when it has its characters.
LEMMA SamePiece ==
  ASSUME NEW A, NEW s \in Seq(A), NEW t \in Seq(A), NEW i \in Nat, NEW n \in Nat,
         n = Len(t), i + n <= Len(s)
  PROVE  SubSeq(s, i + 1, i + n) = t <=> SameRun(s, i + 1, t, 1, n)
<1>1. PICK u \in Seq(A) : u = SubSeq(s, i + 1, i + n) /\ Len(u) = n /\ \A k \in 1..n : u[k] = s[i + k]
  <2>1. /\ SubSeq(s, i + 1, i + n) \in Seq(A) /\ Len(SubSeq(s, i + 1, i + n)) = n
        /\ \A k \in 1..n : SubSeq(s, i + 1, i + n)[k] = s[i + k]
    BY PieceOf
  <2>2. QED
    BY <2>1, Zenon
<1>2. ASSUME u = t PROVE SameRun(s, i + 1, t, 1, n)
  <2>1. ASSUME NEW k \in 0..(n - 1) PROVE s[i + 1 + k] = t[1 + k]
    <3>1. 1 + k \in 1..n /\ i + (1 + k) = i + 1 + k
      OBVIOUS
    <3>2. QED
      BY <1>1, <1>2, <3>1
  <2>2. QED
    BY <2>1 DEF SameRun
<1>3. ASSUME SameRun(s, i + 1, t, 1, n) PROVE u = t
  <2>1. ASSUME NEW k \in 1..n PROVE u[k] = t[k]
    <3>1. k - 1 \in 0..(n - 1) /\ i + 1 + (k - 1) = i + k /\ 1 + (k - 1) = k
      OBVIOUS
    <3>2. s[i + 1 + (k - 1)] = t[1 + (k - 1)]
      BY <1>3, <3>1 DEF SameRun
    <3>3. QED
      BY <1>1, <3>1, <3>2
  <2>2. QED
    BY <1>1, <2>1, SameList
<1>4. QED
  BY <1>1, <1>2, <1>3

LEMMA WholeIs ==
  ASSUME NEW A, NEW s \in Seq(A), NEW t \in Seq(A)
  PROVE  s = t <=> Len(s) = Len(t) /\ SameRun(s, 1, t, 1, Len(t))
<1>1. PICK n \in Nat : n = Len(t)
  OBVIOUS
<1>2. PICK z \in Nat : z = 0
  OBVIOUS
<1>3. ASSUME Len(s) = n PROVE s = t <=> SameRun(s, 1, t, 1, n)
  <2>1. SubSeq(s, z + 1, z + n) = t <=> SameRun(s, z + 1, t, 1, n)
    <3>1. z + n <= Len(s)
      BY <1>1, <1>2, <1>3
    <3>2. z + Len(t) <= Len(s) /\ Len(t) \in Nat
      BY <1>1, <3>1
    <3>3. SubSeq(s, z + 1, z + Len(t)) = t <=> SameRun(s, z + 1, t, 1, Len(t))
      BY <3>2, SamePiece
    <3>4. QED
      BY <1>1, <3>3
  <2>2. SubSeq(s, 1, Len(s)) = s /\ z + 1 = 1 /\ z + n = Len(s)
    BY <1>2, <1>3, SubSeqFull
  <2>3. QED
    BY <2>1, <2>2
<1>4. QED
  BY <1>1, <1>3

LEMMA PrefixIs ==
  ASSUME NEW A, NEW s \in Seq(A), NEW t \in Seq(A)
  PROVE  IsPrefix(t, s) <=> Len(t) <= Len(s) /\ SameRun(s, 1, t, 1, Len(t))
<1>1. PICK n \in Nat : n = Len(t)
  OBVIOUS
<1>2. PICK z \in Nat : z = 0
  OBVIOUS
<1>3. ASSUME n <= Len(s) PROVE SubSeq(s, 1, n) = t <=> SameRun(s, 1, t, 1, n)
  <2>1. SubSeq(s, z + 1, z + n) = t <=> SameRun(s, z + 1, t, 1, n)
    <3>1. z + n <= Len(s)
      BY <1>1, <1>2, <1>3
    <3>2. z + Len(t) <= Len(s) /\ Len(t) \in Nat
      BY <1>1, <3>1
    <3>3. SubSeq(s, z + 1, z + Len(t)) = t <=> SameRun(s, z + 1, t, 1, Len(t))
      BY <3>2, SamePiece
    <3>4. QED
      BY <1>1, <3>3
  <2>2. z + 1 = 1 /\ z + n = n
    BY <1>2
  <2>3. QED
    BY <2>1, <2>2
<1>4. SubSeq(t, 1, n) = t
  BY <1>1, SubSeqFull
<1>5. QED
  BY <1>1, <1>3, <1>4 DEF IsPrefix

LEMMA Reversed ==
  ASSUME NEW A, NEW s \in Seq(A)
  PROVE  /\ Reverse(s) \in Seq(A) /\ Len(Reverse(s)) = Len(s)
         /\ \A k \in 1..Len(s) : Reverse(s)[k] = s[Len(s) - k + 1]
<1>1. PICK n \in Nat : n = Len(s)
  OBVIOUS
<1>2. ASSUME NEW k \in 1..n PROVE s[n - k + 1] \in A
  <2>1. n - k + 1 \in 1..n
    OBVIOUS
  <2>2. QED
    BY <1>1, <2>1
<1>3. PICK r : r = [k \in 1..n |-> s[n - k + 1]]
  OBVIOUS
<1>4. r \in [1..n -> A]
  BY <1>2, <1>3
<1>5. r \in Seq(A) /\ Len(r) = n /\ \A k \in 1..n : r[k] = s[n - k + 1]
  BY <1>3, <1>4
<1>6. Reverse(s) = r
  BY <1>1, <1>3 DEF Reverse
<1>7. QED
  BY <1>1, <1>5, <1>6

LEMMA SuffixIs ==
  ASSUME NEW A, NEW s \in Seq(A), NEW t \in Seq(A)
  PROVE  IsSuffix(t, s) <=> Len(t) <= Len(s) /\ SameRun(s, Len(s) - Len(t) + 1, t, 1, Len(t))
<1>1. PICK n \in Nat, m \in Nat : n = Len(t) /\ m = Len(s)
  OBVIOUS
<1>2. PICK rs \in Seq(A) : rs = Reverse(s) /\ Len(rs) = m /\ \A k \in 1..m : rs[k] = s[m - k + 1]
  <2>1. /\ Reverse(s) \in Seq(A) /\ Len(Reverse(s)) = Len(s)
        /\ \A k \in 1..Len(s) : Reverse(s)[k] = s[Len(s) - k + 1]
    BY Reversed
  <2>2. QED
    BY <1>1, <2>1, Zenon
<1>3. PICK rt \in Seq(A) : rt = Reverse(t) /\ Len(rt) = n /\ \A k \in 1..n : rt[k] = t[n - k + 1]
  <2>1. /\ Reverse(t) \in Seq(A) /\ Len(Reverse(t)) = Len(t)
        /\ \A k \in 1..Len(t) : Reverse(t)[k] = t[Len(t) - k + 1]
    BY Reversed
  <2>2. QED
    BY <1>1, <2>1, Zenon
<1>4. IsSuffix(t, s) <=> n <= m /\ SameRun(rs, 1, rt, 1, n)
  <2>1. IsPrefix(rt, rs) <=> Len(rt) <= Len(rs) /\ SameRun(rs, 1, rt, 1, Len(rt))
    BY PrefixIs
  <2>2. QED
    BY <1>2, <1>3, <2>1 DEF IsSuffix
<1>5. ASSUME n <= m PROVE SameRun(rs, 1, rt, 1, n) <=> SameRun(s, m - n + 1, t, 1, n)
  <2>1. ASSUME NEW k \in 0..(n - 1)
        PROVE  /\ rs[1 + k] = s[m - n + 1 + (n - 1 - k)] /\ rt[1 + k] = t[1 + (n - 1 - k)]
               /\ n - 1 - k \in 0..(n - 1) /\ n - 1 - (n - 1 - k) = k
    <3>1. /\ 1 + k \in 1..m /\ 1 + k \in 1..n /\ m - (1 + k) + 1 = m - n + 1 + (n - 1 - k)
          /\ n - (1 + k) + 1 = 1 + (n - 1 - k)
          /\ n - 1 - k \in 0..(n - 1) /\ n - 1 - (n - 1 - k) = k
      BY <1>5
    <3>2. QED
      BY <1>2, <1>3, <3>1
  <2>2. ASSUME SameRun(rs, 1, rt, 1, n), NEW k \in 0..(n - 1) PROVE s[m - n + 1 + k] = t[1 + k]
    <3>1. PICK l \in 0..(n - 1) : l = n - 1 - k /\ n - 1 - l = k
      BY <2>1
    <3>2. rs[1 + l] = rt[1 + l]
      BY <2>2 DEF SameRun
    <3>3. QED
      BY <2>1, <3>1, <3>2
  <2>3. ASSUME SameRun(s, m - n + 1, t, 1, n), NEW k \in 0..(n - 1) PROVE rs[1 + k] = rt[1 + k]
    <3>1. PICK l \in 0..(n - 1) : l = n - 1 - k
      BY <2>1
    <3>2. s[m - n + 1 + l] = t[1 + l]
      BY <2>3 DEF SameRun
    <3>3. QED
      BY <2>1, <3>1, <3>2
  <2>4. QED
    BY <2>2, <2>3 DEF SameRun
<1>6. QED
  BY <1>1, <1>4, <1>5

LEMMA OccursIs ==
  ASSUME NEW A, NEW s \in Seq(A), NEW t \in Seq(A)
  PROVE  Occurs(t, s) <=> \E i \in 0..(Len(s) - Len(t)) : SameRun(s, i + 1, t, 1, Len(t))
<1>1. ASSUME NEW i \in 0..(Len(s) - Len(t))
      PROVE  SubSeq(s, i + 1, i + Len(t)) = t <=> SameRun(s, i + 1, t, 1, Len(t))
  <2>1. i \in Nat /\ Len(t) \in Nat /\ i + Len(t) <= Len(s)
    OBVIOUS
  <2>2. QED
    BY <2>1, SamePiece
<1>2. QED
  BY <1>1 DEF Occurs

\* A run of expr is one of the text that was cut out of it there.
LEMMA CutRun ==
  ASSUME NEW value, NEW expr, NEW t, NEW i \in Int, NEW j \in Nat, NEW n \in Nat,
         \A k \in 1..n : t[k] = expr[j + k]
  PROVE  SameRun(value, i, expr, j + 1, n) <=> SameRun(value, i, t, 1, n)
<1>1. ASSUME NEW k \in 0..(n - 1) PROVE t[1 + k] = expr[j + 1 + k]
  <2>1. 1 + k \in 1..n /\ j + (1 + k) = j + 1 + k
    OBVIOUS
  <2>2. QED
    BY <2>1
<1>2. QED
  BY <1>1 DEF SameRun

LEMMA PlainText ==
  ASSUME NEW A, NEW value \in Seq(A), NEW expr \in Seq(A), NoStars(expr, 1, Len(expr))
  PROVE  Wildcard(value, expr) <=> value = expr
<1>1. PICK f : IsTexts(f, value, expr) /\ (Wildcard(value, expr) <=> 1 \in f[1])
  BY WildcardTexts
<1>2. PICK n \in Nat, m \in Nat : n = Len(expr) /\ m = Len(value)
  OBVIOUS
<1>3. 1 \in f[1] <=> (1 + n \in f[1 + n] /\ SameRun(value, 1, expr, 1, n))
  <2>1. 1 \in 1..(Len(value) + 1) /\ 1 \in 1..(Len(expr) + 1) /\ 1 + n <= Len(expr) + 1
        /\ NoStars(expr, 1, n)
    BY <1>2
  <2>2. QED
    BY <1>1, <2>1, LiteralRun
<1>4. f[1 + n] = {m + 1}
  <2>1. f[Len(expr) + 1] = {Len(value) + 1} /\ Len(expr) + 1 = 1 + n
    BY <1>1, <1>2, TextsTyped
  <2>2. QED
    BY <1>2, <2>1
<1>5. value = expr <=> m = n /\ SameRun(value, 1, expr, 1, n)
  BY <1>2, WholeIs
<1>6. QED
  BY <1>1, <1>3, <1>4, <1>5

\* After a star the rest begins anywhere.
LEMMA StarFirst ==
  ASSUME NEW A, NEW value \in Seq(A), NEW expr \in Seq(A), NEW f, IsTexts(f, value, expr),
         expr # <<>>, expr[1] = "*"
  PROVE  1 \in f[1] <=> \E k \in 1..(Len(value) + 1) : k \in f[2]
<1>1. 1 \in 1..Len(expr) /\ 2 \in 1..(Len(expr) + 1) /\ 1 + 1 = 2 /\ 1 \in 1..(Len(value) + 1)
  OBVIOUS
<1>2. f[1] = {i \in 1..(Len(value) + 1) : \E k \in f[1 + 1] : i <= k}
  BY <1>1, StarPlace
<1>3. f[2] \subseteq 1..(Len(value) + 1)
  BY <1>1, TextsTyped
<1>4. QED
  BY <1>1, <1>2, <1>3

LEMMA TextAtEnd ==
  ASSUME NEW A, NEW value \in Seq(A), NEW expr \in Seq(A), NEW t \in Seq(A), NEW n \in Nat,
         Len(expr) = n + 1, Len(t) = n, \A k \in 1..n : t[k] = expr[1 + k],
         expr[1] = "*", NoStars(expr, 2, n)
  PROVE  Wildcard(value, expr) <=> IsSuffix(t, value)
<1>1. PICK f : IsTexts(f, value, expr) /\ (Wildcard(value, expr) <=> 1 \in f[1])
  BY WildcardTexts
<1>2. PICK m \in Nat : m = Len(value)
  OBVIOUS
<1>3. 1 \in f[1] <=> \E k \in 1..(m + 1) : k \in f[2]
  <2>1. expr # <<>>
    OBVIOUS
  <2>2. QED
    BY <1>1, <1>2, <2>1, StarFirst
<1>4. f[n + 2] = {m + 1}
  <2>1. f[Len(expr) + 1] = {Len(value) + 1} /\ Len(expr) + 1 = n + 2
    BY <1>1, TextsTyped
  <2>2. QED
    BY <1>2, <2>1
<1>5. ASSUME NEW k \in 1..(m + 1) PROVE k \in f[2] <=> (k + n = m + 1 /\ SameRun(value, k, t, 1, n))
  <2>1. k \in 1..(Len(value) + 1) /\ 2 \in 1..(Len(expr) + 1) /\ 2 + n <= Len(expr) + 1 /\ k \in Int
    BY <1>2
  <2>2. k \in f[2] <=> (k + n \in f[2 + n] /\ SameRun(value, k, expr, 2, n))
    BY <1>1, <2>1, LiteralRun
  <2>3. SameRun(value, k, expr, 1 + 1, n) <=> SameRun(value, k, t, 1, n)
    BY <2>1, CutRun
  <2>4. 2 + n = n + 2 /\ 1 + 1 = 2
    OBVIOUS
  <2>5. QED
    BY <1>4, <2>2, <2>3, <2>4
<1>6. IsSuffix(t, value) <=> n <= m /\ SameRun(value, m - n + 1, t, 1, n)
  BY <1>2, SuffixIs
<1>7. (\E k \in 1..(m + 1) : k \in f[2]) <=> n <= m /\ SameRun(value, m - n + 1, t, 1, n)
  <2>1. ASSUME NEW k \in 1..(m + 1), k \in f[2] PROVE n <= m /\ SameRun(value, m - n + 1, t, 1, n)
    <3>1. k + n = m + 1 /\ SameRun(value, k, t, 1, n)
      BY <1>5, <2>1
    <3>2. k = m - n + 1 /\ n <= m
      BY <3>1
    <3>3. QED
      BY <3>1, <3>2
  <2>2. ASSUME n <= m, SameRun(value, m - n + 1, t, 1, n) PROVE \E k \in 1..(m + 1) : k \in f[2]
    <3>1. m - n + 1 \in 1..(m + 1) /\ (m - n + 1) + n = m + 1
      BY <2>2
    <3>2. QED
      BY <1>5, <2>2, <3>1
  <2>3. QED
    BY <2>1, <2>2
<1>8. QED
  BY <1>1, <1>3, <1>6, <1>7

\* Before a last star the rest of the value is of no matter.
LEMMA StarLast ==
  ASSUME NEW A, NEW value \in Seq(A), NEW expr \in Seq(A), NEW f, IsTexts(f, value, expr),
         NEW n \in Nat, Len(expr) = n + 1, expr[n + 1] = "*"
  PROVE  f[n + 1] = 1..(Len(value) + 1)
<1>1. PICK last \in Nat : last = Len(value) + 1 /\ last \in 1..last
  BY TextsTyped
<1>2. n + 1 \in 1..Len(expr) /\ (n + 1) + 1 = Len(expr) + 1
  OBVIOUS
<1>3. f[n + 1] = {i \in 1..(Len(value) + 1) : \E k \in f[(n + 1) + 1] : i <= k}
  BY <1>2, StarPlace
<1>4. f[Len(expr) + 1] = {Len(value) + 1}
  BY TextsTyped
<1>5. f[n + 1] = {i \in 1..last : \E k \in {last} : i <= k}
  BY <1>1, <1>2, <1>3, <1>4
<1>6. QED
  BY <1>1, <1>5

LEMMA TextAtStart ==
  ASSUME NEW A, NEW value \in Seq(A), NEW expr \in Seq(A), NEW t \in Seq(A), NEW n \in Nat,
         Len(expr) = n + 1, Len(t) = n, \A k \in 1..n : t[k] = expr[k],
         expr[n + 1] = "*", NoStars(expr, 1, n)
  PROVE  Wildcard(value, expr) <=> IsPrefix(t, value)
<1>1. PICK f : IsTexts(f, value, expr) /\ (Wildcard(value, expr) <=> 1 \in f[1])
  BY WildcardTexts
<1>2. PICK m \in Nat : m = Len(value)
  OBVIOUS
<1>3. f[n + 1] = 1..(m + 1)
  BY <1>1, <1>2, StarLast
<1>4. 1 \in f[1] <=> (1 + n \in f[1 + n] /\ SameRun(value, 1, expr, 1, n))
  <2>1. 1 \in 1..(Len(value) + 1) /\ 1 \in 1..(Len(expr) + 1) /\ 1 + n <= Len(expr) + 1
    OBVIOUS
  <2>2. QED
    BY <1>1, <2>1, LiteralRun
<1>5. SameRun(value, 1, expr, 1, n) <=> SameRun(value, 1, t, 1, n)
  <2>1. PICK z \in Nat : z + 1 = 1
    OBVIOUS
  <2>2. SameRun(value, 1, expr, z + 1, n) <=> SameRun(value, 1, t, 1, n)
    <3>1. \A k \in 1..n : t[k] = expr[z + k]
      BY <2>1
    <3>2. 1 \in Int
      OBVIOUS
    <3>3. QED
      BY <3>1, <3>2, CutRun
  <2>3. z + 1 = 1
    BY <2>1
  <2>4. QED
    BY <2>2, <2>3
<1>6. 1 + n \in f[1 + n] <=> n <= m
  <2>1. 1 + n = n + 1
    OBVIOUS
  <2>2. QED
    BY <1>3, <2>1
<1>7. IsPrefix(t, value) <=> n <= m /\ SameRun(value, 1, t, 1, n)
  BY <1>2, PrefixIs
<1>8. QED
  BY <1>1, <1>4, <1>5, <1>6, <1>7

LEMMA TextInside ==
  ASSUME NEW A, NEW value \in Seq(A), NEW expr \in Seq(A), NEW t \in Seq(A), NEW n \in Nat,
         Len(expr) = n + 2, Len(t) = n, \A k \in 1..n : t[k] = expr[1 + k],
         expr[1] = "*", expr[n + 2] = "*", NoStars(expr, 2, n)
  PROVE  Wildcard(value, expr) <=> Occurs(t, value)
<1>1. PICK f : IsTexts(f, value, expr) /\ (Wildcard(value, expr) <=> 1 \in f[1])
  BY WildcardTexts
<1>2. PICK m \in Nat : m = Len(value)
  OBVIOUS
<1>3. 1 \in f[1] <=> \E k \in 1..(m + 1) : k \in f[2]
  <2>1. expr # <<>>
    OBVIOUS
  <2>2. QED
    BY <1>1, <1>2, <2>1, StarFirst
<1>4. f[n + 2] = 1..(m + 1)
  <2>1. PICK l \in Nat : l = n + 1 /\ l + 1 = n + 2
    OBVIOUS
  <2>2. f[l + 1] = 1..(Len(value) + 1)
    <3>1. Len(expr) = l + 1 /\ expr[l + 1] = "*"
      BY <2>1
    <3>2. QED
      BY <1>1, <3>1, StarLast
  <2>3. QED
    BY <1>2, <2>1, <2>2
<1>5. ASSUME NEW k \in 1..(m + 1) PROVE k \in f[2] <=> (k + n <= m + 1 /\ SameRun(value, k, t, 1, n))
  <2>1. k \in 1..(Len(value) + 1) /\ 2 \in 1..(Len(expr) + 1) /\ 2 + n <= Len(expr) + 1 /\ k \in Int
    BY <1>2
  <2>2. k \in f[2] <=> (k + n \in f[2 + n] /\ SameRun(value, k, expr, 2, n))
    BY <1>1, <2>1, LiteralRun
  <2>3. SameRun(value, k, expr, 1 + 1, n) <=> SameRun(value, k, t, 1, n)
    BY <2>1, CutRun
  <2>4. 2 + n = n + 2 /\ 1 + 1 = 2
    OBVIOUS
  <2>5. k + n \in 1..(m + 1) <=> k + n <= m + 1
    OBVIOUS
  <2>6. QED
    BY <1>4, <2>2, <2>3, <2>4, <2>5
<1>6. Occurs(t, value) <=> \E i \in 0..(m - n) : SameRun(value, i + 1, t, 1, n)
  BY <1>2, OccursIs
<1>7. (\E k \in 1..(m + 1) : k \in f[2]) <=> \E i \in 0..(m - n) : SameRun(value, i + 1, t, 1, n)
  <2>1. ASSUME NEW k \in 1..(m + 1), k \in f[2]
        PROVE  \E i \in 0..(m - n) : SameRun(value, i + 1, t, 1, n)
    <3>1. k + n <= m + 1 /\ SameRun(value, k, t, 1, n)
      BY <1>5, <2>1
    <3>2. k - 1 \in 0..(m - n) /\ (k - 1) + 1 = k
      BY <3>1
    <3>3. QED
      BY <3>1, <3>2
  <2>2. ASSUME NEW i \in 0..(m - n), SameRun(value, i + 1, t, 1, n)
        PROVE  \E k \in 1..(m + 1) : k \in f[2]
    <3>1. i + 1 \in 1..(m + 1) /\ (i + 1) + n <= m + 1
      BY <2>2
    <3>2. QED
      BY <1>5, <2>2, <3>1
  <2>3. QED
    BY <2>1, <2>2
<1>8. QED
  BY <1>1, <1>3, <1>6, <1>7

\* The one star, whatever comes.
LEMMA OneStar ==
  ASSUME NEW A, NEW value \in Seq(A), NEW expr \in Seq(A), Len(expr) = 1, expr[1] = "*"
  PROVE  Wildcard(value, expr)
<1>1. PICK f : IsTexts(f, value, expr) /\ (Wildcard(value, expr) <=> 1 \in f[1])
  BY WildcardTexts
<1>2. f[Len(expr) + 1] = {Len(value) + 1}
  BY <1>1, TextsTyped
<1>3. \E k \in 1..(Len(value) + 1) : k \in f[2]
  <2>1. Len(value) + 1 \in 1..(Len(value) + 1) /\ Len(expr) + 1 = 2
    OBVIOUS
  <2>2. QED
    BY <1>2, <2>1
<1>4. 1 \in f[1]
  <2>1. expr # <<>>
    OBVIOUS
  <2>2. QED
    BY <1>1, <1>3, <2>1, StarFirst
<1>5. QED
  BY <1>1, <1>4

LEMMA SingleDecides ==
  ASSUME NEW A, NEW value \in Seq(A), NEW expr \in Seq(A)
  PROVE  MatchSingle(value, expr) <=> value # <<>> /\ expr # <<>> /\ Wildcard(value, expr)
<1>1. PICK n \in Nat : n = Len(expr)
  OBVIOUS
<1>2. SUFFICES ASSUME value # <<>>, expr # <<>> PROVE MatchSingle(value, expr) <=> Wildcard(value, expr)
  BY DEF MatchSingle
<1>3. ASSUME NEW i \in 1..n PROVE i \in Stars(expr) <=> expr[i] = "*"
  BY <1>1 DEF Stars
<1>4. Stars(expr) \subseteq 1..n /\ n > 0
  BY <1>1, <1>2 DEF Stars
<1>5. MatchSingle(value, expr) <=>
        CASE expr = <<"*">> -> TRUE
          [] Stars(expr) = {} -> value = expr
          [] n > 1 /\ Stars(expr) = {1, n} -> Occurs(SubSeq(expr, 2, n - 1), value)
          [] n > 1 /\ Stars(expr) = {1} -> IsSuffix(Tail(expr), value)
          [] n > 1 /\ Stars(expr) = {n} -> IsPrefix(Front(expr), value)
          [] OTHER -> MatchIterative(value, expr)
  BY <1>1, <1>2, Zenon DEF MatchSingle
<1>6. expr = <<"*">> => n = 1 /\ Stars(expr) # {}
  BY <1>1, <1>3
<1>7. ASSUME NEW i \in Nat, NEW m \in Nat, i > 0, i + m <= n + 1, \A k \in i..(i + m - 1) : k \notin Stars(expr)
      PROVE  NoStars(expr, i, m)
  <2>1. ASSUME NEW k \in 0..(m - 1) PROVE expr[i + k] # "*"
    <3>1. i + k \in i..(i + m - 1) /\ i + k \in 1..n
      BY <1>7
    <3>2. QED
      BY <1>3, <1>7, <3>1
  <2>2. QED
    BY <2>1 DEF NoStars
<1>8. CASE expr = <<"*">>
  <2>1. Wildcard(value, expr)
    <3>1. Len(expr) = 1 /\ expr[1] = "*"
      BY <1>8
    <3>2. QED
      BY <3>1, OneStar
  <2>2. MatchSingle(value, expr)
    BY <1>5, <1>6, <1>8
  <2>3. QED
    BY <2>1, <2>2
<1>9. CASE Stars(expr) = {}
  <2>1. NoStars(expr, 1, Len(expr))
    BY <1>1, <1>7, <1>9
  <2>2. MatchSingle(value, expr) <=> value = expr
    BY <1>5, <1>6, <1>9
  <2>3. QED
    BY <2>1, <2>2, PlainText
<1>10. CASE n > 1 /\ Stars(expr) = {1, n}
  <2>1. PICK l \in Nat : l + 2 = n /\ 1 + l = n - 1
    BY <1>10
  <2>2. PICK t : t = SubSeq(expr, 2, n - 1)
    OBVIOUS
  <2>3. t \in Seq(A) /\ Len(t) = l /\ \A k \in 1..l : t[k] = expr[1 + k]
    <3>1. PICK i \in Nat : i = 1 /\ i + 1 = 2
      OBVIOUS
    <3>2. i + l <= Len(expr)
      BY <1>1, <2>1, <3>1
    <3>3. /\ SubSeq(expr, i + 1, i + l) \in Seq(A) /\ Len(SubSeq(expr, i + 1, i + l)) = l
          /\ \A k \in 1..l : SubSeq(expr, i + 1, i + l)[k] = expr[i + k]
      BY <3>2, PieceOf
    <3>4. QED
      BY <2>1, <2>2, <3>1, <3>3
  <2>4. NoStars(expr, 2, l)
    <3>1. \A k \in 2..(2 + l - 1) : k \notin {1, n}
      BY <2>1
    <3>2. 2 + l <= n + 1 /\ 2 > 0
      BY <2>1
    <3>3. QED
      BY <1>7, <1>10, <3>1, <3>2
  <2>5. expr[1] = "*" /\ expr[l + 2] = "*" /\ Len(expr) = l + 2
    BY <1>1, <1>3, <1>10, <2>1
  <2>6. Wildcard(value, expr) <=> Occurs(t, value)
    BY <2>3, <2>4, <2>5, TextInside
  <2>7. MatchSingle(value, expr) <=> Occurs(t, value)
    <3>1. Stars(expr) # {} /\ Stars(expr) # {1} /\ Stars(expr) # {n} /\ ~(expr = <<"*">>)
      BY <1>6, <1>10
    <3>2. QED
      BY <1>5, <1>10, <2>2, <3>1
  <2>8. QED
    BY <2>6, <2>7
<1>11. CASE n > 1 /\ Stars(expr) = {1}
  <2>1. PICK l \in Nat : l + 1 = n
    BY <1>11
  <2>2. PICK t : t = Tail(expr)
    OBVIOUS
  <2>3. t \in Seq(A) /\ Len(t) = l /\ \A k \in 1..l : t[k] = expr[1 + k]
    <3>1. t \in Seq(A) /\ Len(t) = Len(expr) - 1 /\ \A k \in 1..(Len(expr) - 1) : t[k] = expr[k + 1]
      BY <1>2, <2>2, HeadTailProperties
    <3>2. QED
      BY <1>1, <2>1, <3>1
  <2>4. NoStars(expr, 2, l)
    <3>1. \A k \in 2..(2 + l - 1) : k \notin {1}
      OBVIOUS
    <3>2. 2 + l <= n + 1 /\ 2 > 0
      BY <2>1
    <3>3. QED
      BY <1>7, <1>11, <3>1, <3>2
  <2>5. expr[1] = "*" /\ Len(expr) = l + 1
    BY <1>1, <1>3, <1>11, <2>1
  <2>6. Wildcard(value, expr) <=> IsSuffix(t, value)
    BY <2>3, <2>4, <2>5, TextAtEnd
  <2>7. MatchSingle(value, expr) <=> IsSuffix(t, value)
    BY <1>5, <1>6, <1>11, <2>2
  <2>8. QED
    BY <2>6, <2>7
<1>12. CASE n > 1 /\ Stars(expr) = {n}
  <2>1. PICK l \in Nat : l + 1 = n /\ l = n - 1
    BY <1>12
  <2>2. PICK t : t = Front(expr)
    OBVIOUS
  <2>3. t \in Seq(A) /\ Len(t) = l /\ \A k \in 1..l : t[k] = expr[k]
    <3>1. PICK i \in Nat : i = 0 /\ i + 1 = 1 /\ i + l = l
      OBVIOUS
    <3>2. i + l <= Len(expr)
      BY <1>1, <2>1, <3>1
    <3>3. /\ SubSeq(expr, i + 1, i + l) \in Seq(A) /\ Len(SubSeq(expr, i + 1, i + l)) = l
          /\ \A k \in 1..l : SubSeq(expr, i + 1, i + l)[k] = expr[i + k]
      BY <3>2, PieceOf
    <3>4. t = SubSeq(expr, 1, l)
      BY <1>1, <2>1, <2>2 DEF Front
    <3>5. QED
      BY <3>1, <3>3, <3>4
  <2>4. NoStars(expr, 1, l)
    <3>1. \A k \in 1..(1 + l - 1) : k \notin {n}
      BY <2>1
    <3>2. 1 + l <= n + 1 /\ 1 > 0
      BY <2>1
    <3>3. QED
      BY <1>7, <1>12, <3>1, <3>2
  <2>5. expr[l + 1] = "*" /\ Len(expr) = l + 1
    BY <1>1, <1>3, <1>12, <2>1
  <2>6. Wildcard(value, expr) <=> IsPrefix(t, value)
    BY <2>3, <2>4, <2>5, TextAtStart
  <2>7. MatchSingle(value, expr) <=> IsPrefix(t, value)
    BY <1>5, <1>6, <1>12, <2>2
  <2>8. QED
    BY <2>6, <2>7
<1>13. CASE ~(expr = <<"*">>) /\ Stars(expr) # {}
            /\ ~(n > 1 /\ (Stars(expr) = {1, n} \/ Stars(expr) = {1} \/ Stars(expr) = {n}))
  <2>1. MatchSingle(value, expr) <=> MatchIterative(value, expr)
    BY <1>5, <1>13
  <2>2. QED
    BY <2>1, IterativeIsWildcard
<1>14. QED
  BY <1>8, <1>9, <1>10, <1>11, <1>12, <1>13

-----------------------------------------------------------------------------
(* Match: the verdict over the masks of a list.                            *)

LEMMA MaxIs ==
  ASSUME NEW n \in Nat, NEW S \in SUBSET (0..n), S # {}
  PROVE  Max(S) \in S /\ \A y \in S : y <= Max(S)
<1>1. PICK g : g = [s \in S |-> s]
  OBVIOUS
<1>2. g \in [S -> 0..n]
  BY <1>1
<1>3. PICK x \in S : \A y \in S : g[y] <= g[x]
  BY <1>2, Greatest
<1>4. x \in S /\ \A y \in S : x >= y
  BY <1>1, <1>3
<1>5. Max(S) \in S /\ \A y \in S : Max(S) >= y
  <2>1. \E z \in S : \A y \in S : z >= y
    BY <1>4
  <2>2. PICK c : c = CHOOSE z \in S : \A y \in S : z >= y
    OBVIOUS
  <2>3. c \in S /\ \A y \in S : c >= y
    BY <2>1, <2>2, Zenon
  <2>4. Max(S) = c
    BY <2>2, Zenon DEF Max
  <2>5. QED
    BY <2>3, <2>4
<1>6. QED
  BY <1>5

LEMMA MinIs ==
  ASSUME NEW S \in SUBSET Nat, S # {}
  PROVE  Min(S) \in S /\ \A y \in S : Min(S) <= y
<1>1. PICK x \in S : \A y \in S : ~(y < x)
  BY LeastNumber
<1>2. \E z \in S : \A y \in S : z <= y
  BY <1>1
<1>3. PICK c : c = CHOOSE z \in S : \A y \in S : z <= y
  OBVIOUS
<1>4. c \in S /\ \A y \in S : c <= y
  BY <1>2, <1>3, Zenon
<1>5. Min(S) = c
  BY <1>3, Zenon DEF Min
<1>6. QED
  BY <1>4, <1>5

LEMMA TokensTyped ==
  ASSUME NEW A, NEW s \in Seq(A), NEW end \in Ends(s)
  PROVE  TokenTo(s, end) \in Seq(A)
<1>1. PICK n \in Nat : n = end - 1 /\ n <= Len(s)
  <2>1. end \in 1..(Len(s) + 1) /\ Len(s) \in Nat
    <3>1. end \in 1..(Len(s) + 1)
      BY Zenon DEF Ends
    <3>2. QED
      BY <3>1
  <2>2. end - 1 \in Nat /\ end - 1 <= Len(s)
    BY <2>1
  <2>3. QED
    BY <2>2
<1>2. PICK S : S = {0} \cup {i \in 1..(end - 1) : s[i] = ","}
  OBVIOUS
<1>3. S \in SUBSET (0..n) /\ S # {}
  <2>1. S = {0} \cup {i \in 1..n : s[i] = ","}
    BY <1>1, <1>2
  <2>2. 0 \in 0..n /\ 1..n \subseteq 0..n
    OBVIOUS
  <2>3. QED
    BY <2>1, <2>2
<1>4. Max(S) \in 0..n
  BY <1>3, MaxIs
<1>5. PICK m \in Int : m = Max(S) + 1 /\ m >= 1
  BY <1>4
<1>6. TokenTo(s, end) = SubSeq(s, m, n)
  BY <1>1, <1>2, <1>5 DEF TokenTo
<1>7. \A i \in m..n : s[i] \in A
  BY <1>1, <1>5
<1>8. SubSeq(s, m, n) \in Seq(A)
  <2>1. n \in Int
    OBVIOUS
  <2>2. QED
    BY <1>7, <2>1, SubSeqProperties
<1>9. QED
  BY <1>6, <1>8

LEMMA TrimTyped ==
  ASSUME NEW A, NEW t \in Seq(A)
  PROVE  TrimSpaces(t) \in Seq(A)
<1>1. PICK solid : solid = {i \in DOMAIN t : t[i] # " "}
  OBVIOUS
<1>2. TrimSpaces(t) = IF solid = {} THEN <<>> ELSE SubSeq(t, Min(solid), Max(solid))
  BY <1>1 DEF TrimSpaces
<1>3. CASE solid = {}
  BY <1>2, <1>3
<1>4. CASE solid # {}
  <2>1. PICK n \in Nat : n = Len(t)
    OBVIOUS
  <2>. solid \in SUBSET (0..n) /\ solid \in SUBSET Nat /\ solid \subseteq 1..n
    <3>1. DOMAIN t = 1..n
      BY <2>1
    <3>2. solid \subseteq 1..n
      BY <1>1, <3>1, Zenon
    <3>3. 1..n \subseteq 0..n /\ 1..n \subseteq Nat
      OBVIOUS
    <3>4. QED
      BY <3>2, <3>3
  <2>2. PICK lo \in Int, hi \in Int : lo = Min(solid) /\ hi = Max(solid) /\ lo \in 1..n /\ hi \in 1..n
    <3>1. Min(solid) \in solid
      BY <1>4, MinIs
    <3>2. Max(solid) \in solid
      BY <1>4, MaxIs
    <3>3. Min(solid) \in 1..n /\ Max(solid) \in 1..n
      BY <3>1, <3>2
    <3>4. QED
      BY <3>3
  <2>3. \A i \in lo..hi : t[i] \in A
    BY <2>1, <2>2
  <2>4. SubSeq(t, lo, hi) \in Seq(A)
    BY <2>3, SubSeqProperties
  <2>5. QED
    BY <1>2, <1>4, <2>2, <2>4
<1>5. QED
  BY <1>3, <1>4

MaskAt(pattern, i) == TrimSpaces(TokenTo(pattern, i))
Verdicts == {"none", "found", "excluded"}

\* The verdict after the masks that end up to each place of the list.
IsVerdict(verdict, value, pattern) ==
  /\ verdict \in [0..(Len(pattern) + 1) -> Verdicts] /\ verdict[0] = "none"
  /\ \A i \in 1..(Len(pattern) + 1) :
       verdict[i] = IF i \notin Ends(pattern) THEN verdict[i - 1]
                    ELSE MaskVerdict(verdict[i - 1], value, MaskAt(pattern, i))

LEMMA VerdictTyped ==
  ASSUME NEW v \in Verdicts, NEW value, NEW mask
  PROVE  MaskVerdict(v, value, mask) \in Verdicts
BY DEF MaskVerdict, Verdicts

LEMMA VerdictExists ==
  ASSUME NEW A, NEW value \in Seq(A), NEW pattern \in Seq(A)
  PROVE  \E verdict : IsVerdict(verdict, value, pattern)
<1>1. PICK n \in Nat : n = Len(pattern) + 1
  OBVIOUS
<1> DEFINE Step == [i \in 1..n |-> [v \in Verdicts |->
             IF i \notin Ends(pattern) THEN v ELSE MaskVerdict(v, value, MaskAt(pattern, i))]]
<1>2. Step \in Steps(n, Verdicts)
  <2>1. ASSUME NEW i, NEW v \in Verdicts
        PROVE  (IF i \notin Ends(pattern) THEN v ELSE MaskVerdict(v, value, MaskAt(pattern, i))) \in Verdicts
    BY VerdictTyped
  <2>2. QED
    BY <2>1 DEF Steps
<1>3. PICK z \in Verdicts : z = "none"
  BY DEF Verdicts
<1>4. PICK g : g \in Walks(n, Verdicts, z, Step)
  <2> HIDE DEF Step
  <2>1. QED
    BY <1>2, WalkExists
<1>5. g \in [0..n -> Verdicts] /\ g[0] = z /\ \A i \in 1..n : g[i] = Step[i][g[i - 1]]
  BY <1>4 DEF Walks
<1>6. ASSUME NEW i \in 1..n
      PROVE  g[i] = IF i \notin Ends(pattern) THEN g[i - 1] ELSE MaskVerdict(g[i - 1], value, MaskAt(pattern, i))
  <2>1. g[i - 1] \in Verdicts
    <3>1. i - 1 \in 0..n
      OBVIOUS
    <3>2. QED
      BY <1>5, <3>1
  <2>2. QED
    BY <1>5, <2>1
<1>7. QED
  BY <1>1, <1>3, <1>5, <1>6 DEF IsVerdict

LEMMA MatchVerdict ==
  ASSUME NEW A, NEW value \in Seq(A), NEW pattern \in Seq(A)
  PROVE  \E verdict :
           /\ IsVerdict(verdict, value, pattern)
           /\ Match(value, pattern) <=>
                pattern # <<>> /\ value # <<>> /\ verdict[Len(pattern) + 1] = "found"
<1> DEFINE Recurs(g) == g = [i \in 0..(Len(pattern) + 1) |->
        IF i = 0 THEN "none"
        ELSE IF i \notin Ends(pattern) THEN g[i - 1]
        ELSE MaskVerdict(g[i - 1], value, TrimSpaces(TokenTo(pattern, i)))]
<1>1. PICK n \in Nat : n = Len(pattern) + 1
  OBVIOUS
<1>2. ASSUME NEW g, IsVerdict(g, value, pattern) PROVE Recurs(g)
  <2>1. g = [i \in 0..n |-> g[i]] /\ g[0] = "none"
    BY <1>1, <1>2 DEF IsVerdict
  <2>2. ASSUME NEW i \in 0..n
        PROVE g[i] = IF i = 0 THEN "none"
                     ELSE IF i \notin Ends(pattern) THEN g[i - 1]
                     ELSE MaskVerdict(g[i - 1], value, TrimSpaces(TokenTo(pattern, i)))
    <3>1. CASE i = 0
      BY <2>1, <3>1
    <3>2. CASE i # 0
      <4>1. i \in 1..n
        BY <3>2
      <4>2. g[i] = IF i \notin Ends(pattern) THEN g[i - 1]
                   ELSE MaskVerdict(g[i - 1], value, TrimSpaces(TokenTo(pattern, i)))
        BY <1>1, <1>2, <4>1 DEF IsVerdict, MaskAt
      <4>3. QED
        BY <3>2, <4>2
    <3>3. QED
      BY <3>1, <3>2
  <2>3. QED
    BY <1>1, <2>1, <2>2, Zenon
<1>3. ASSUME NEW g, Recurs(g) PROVE IsVerdict(g, value, pattern)
  <2>1. ASSUME NEW i \in 0..n
        PROVE g[i] = IF i = 0 THEN "none"
                     ELSE IF i \notin Ends(pattern) THEN g[i - 1]
                     ELSE MaskVerdict(g[i - 1], value, TrimSpaces(TokenTo(pattern, i)))
    BY <1>1, <1>3, Zenon
  <2>2. g = [i \in 0..n |-> g[i]]
    BY <1>1, <1>3, Zenon
  <2>3. ASSUME NEW i \in 1..n
        PROVE  g[i] = IF i \notin Ends(pattern) THEN g[i - 1]
                      ELSE MaskVerdict(g[i - 1], value, MaskAt(pattern, i))
    <3>1. i \in 0..n /\ i # 0
      OBVIOUS
    <3>2. QED
      BY <2>1, <3>1 DEF MaskAt
  <2>4. 0 \in 0..n /\ g[0] = "none"
    BY <2>1
  <2> DEFINE T == {i \in 0..n : g[i] \in Verdicts}
  <2>5. 0 \in T
    BY <2>4 DEF Verdicts
  <2>6. ASSUME NEW i \in 1..n, i - 1 \in T PROVE i \in T
    <3>1. g[i - 1] \in Verdicts
      BY <2>6
    <3>2. MaskVerdict(g[i - 1], value, MaskAt(pattern, i)) \in Verdicts
      BY <3>1, VerdictTyped
    <3>3. g[i] \in Verdicts
      BY <2>3, <3>1, <3>2
    <3>4. i \in 0..n
      OBVIOUS
    <3>5. QED
      BY <3>3, <3>4
  <2>7. 0..n \subseteq T
    <3> HIDE DEF T
    <3>1. QED
      BY <2>5, <2>6, CountUp
  <2>8. g \in [0..n -> Verdicts]
    <3>1. \A i \in 0..n : g[i] \in Verdicts
      BY <2>7
    <3>2. QED
      BY <2>2, <3>1
  <2>9. QED
    BY <1>1, <2>3, <2>4, <2>8 DEF IsVerdict
<1>4. PICK verdict : verdict = CHOOSE g : Recurs(g)
  OBVIOUS
<1>5. Recurs(verdict)
  <2> HIDE DEF Recurs
  <2>1. \E g : Recurs(g)
    BY <1>2, VerdictExists
  <2>2. QED
    BY <1>4, <2>1
<1>6. Match(value, pattern) <=> pattern # <<>> /\ value # <<>> /\ verdict[Len(pattern) + 1] = "found"
  BY <1>4, Zenon DEF Match
<1>7. QED
  BY <1>3, <1>5, <1>6

\* The mask that ends at i excludes the value, or finds it.
ExcludesAt(value, pattern, i) ==
  /\ i \in Ends(pattern) /\ MaskAt(pattern, i) # <<>> /\ Head(MaskAt(pattern, i)) = "!"
  /\ MatchSingle(value, Tail(MaskAt(pattern, i)))
FindsAt(value, pattern, i) ==
  /\ i \in Ends(pattern) /\ MaskAt(pattern, i) # <<>> /\ Head(MaskAt(pattern, i)) # "!"
  /\ MatchSingle(value, MaskAt(pattern, i))

\* An exclusion wins, wherever it stands in the list.
LEMMA VerdictSays ==
  ASSUME NEW A, NEW value \in Seq(A), NEW pattern \in Seq(A),
         NEW verdict, IsVerdict(verdict, value, pattern)
  PROVE  verdict[Len(pattern) + 1] = "found" <=>
           /\ \E i \in 1..(Len(pattern) + 1) : FindsAt(value, pattern, i)
           /\ ~\E i \in 1..(Len(pattern) + 1) : ExcludesAt(value, pattern, i)
<1>1. PICK n \in Nat : n = Len(pattern) + 1
  OBVIOUS
<1> DEFINE Excl(i) == \E k \in 1..i : ExcludesAt(value, pattern, k)
           Find(i) == \E k \in 1..i : FindsAt(value, pattern, k)
           Says(i) == /\ verdict[i] = "excluded" <=> Excl(i)
                      /\ verdict[i] = "found" <=> Find(i) /\ ~Excl(i)
           T == {i \in 0..n : Says(i)}
<1>2. 0 \in T
  BY DEF IsVerdict
<1>3. ASSUME NEW i \in 1..n, i - 1 \in T PROVE i \in T
  <2>1. Says(i - 1) /\ verdict[i - 1] \in Verdicts
    <3>1. i - 1 \in 0..n
      OBVIOUS
    <3>2. QED
      BY <1>1, <1>3, <3>1 DEF IsVerdict
  <2>2. verdict[i] = IF i \notin Ends(pattern) THEN verdict[i - 1]
                     ELSE MaskVerdict(verdict[i - 1], value, MaskAt(pattern, i))
    BY <1>1 DEF IsVerdict
  <2>3. /\ Excl(i) <=> Excl(i - 1) \/ ExcludesAt(value, pattern, i)
        /\ Find(i) <=> Find(i - 1) \/ FindsAt(value, pattern, i)
    <3>1. \A k \in 1..i : k = i \/ k \in 1..(i - 1)
      OBVIOUS
    <3>2. i \in 1..i /\ 1..(i - 1) \subseteq 1..i
      OBVIOUS
    <3>3. QED
      BY <3>1, <3>2
  <2>4. Says(i)
    <3> HIDE DEF Excl, Find
    <3>1. CASE i \notin Ends(pattern)
      BY <2>1, <2>2, <2>3, <3>1 DEF ExcludesAt, FindsAt
    <3>2. CASE i \in Ends(pattern)
      <4>1. verdict[i] = MaskVerdict(verdict[i - 1], value, MaskAt(pattern, i))
        BY <2>2, <3>2
      <4>2. QED
        BY <2>1, <2>3, <3>2, <4>1 DEF MaskVerdict, ExcludesAt, FindsAt, Verdicts
    <3>3. QED
      BY <3>1, <3>2
  <2>5. i \in 0..n
    OBVIOUS
  <2>6. QED
    BY <2>4, <2>5, Zenon
<1>4. n \in T
  <2> HIDE DEF T
  <2>1. 0..n \subseteq T
    BY <1>2, <1>3, CountUp
  <2>2. QED
    BY <2>1
<1>5. QED
  BY <1>1, <1>4

LEMMA MatchDecides ==
  ASSUME NEW A, NEW value \in Seq(A), NEW pattern \in Seq(A)
  PROVE  Match(value, pattern) <=>
           /\ value # <<>>
           /\ \E mask \in Masks(pattern) : ~Excludes(mask) /\ Wildcard(value, mask)
           /\ ~\E mask \in Masks(pattern) :
                 Excludes(mask) /\ Tail(mask) # <<>> /\ Wildcard(value, Tail(mask))
<1>1. PICK verdict : /\ IsVerdict(verdict, value, pattern)
                     /\ Match(value, pattern) <=>
                          pattern # <<>> /\ value # <<>> /\ verdict[Len(pattern) + 1] = "found"
  BY MatchVerdict
<1>2. Ends(pattern) \subseteq 1..(Len(pattern) + 1)
  BY DEF Ends
<1>3. verdict[Len(pattern) + 1] = "found" <=>
        /\ \E i \in Ends(pattern) : FindsAt(value, pattern, i)
        /\ ~\E i \in Ends(pattern) : ExcludesAt(value, pattern, i)
  <2>1. verdict[Len(pattern) + 1] = "found" <=>
           /\ \E i \in 1..(Len(pattern) + 1) : FindsAt(value, pattern, i)
           /\ ~\E i \in 1..(Len(pattern) + 1) : ExcludesAt(value, pattern, i)
    BY <1>1, VerdictSays
  <2>2. \A i : FindsAt(value, pattern, i) \/ ExcludesAt(value, pattern, i) => i \in Ends(pattern)
    BY DEF FindsAt, ExcludesAt
  <2>3. QED
    BY <1>2, <2>1, <2>2
<1>4. ASSUME NEW i \in Ends(pattern) PROVE MaskAt(pattern, i) \in Seq(A)
  BY TokensTyped, TrimTyped DEF MaskAt
<1>5. ASSUME value # <<>>, NEW i \in Ends(pattern), NEW mask, mask = MaskAt(pattern, i)
      PROVE  /\ FindsAt(value, pattern, i) <=> mask # <<>> /\ ~Excludes(mask) /\ Wildcard(value, mask)
             /\ ExcludesAt(value, pattern, i) <=>
                  mask # <<>> /\ Excludes(mask) /\ Tail(mask) # <<>> /\ Wildcard(value, Tail(mask))
  <2>1. mask \in Seq(A)
    BY <1>4, <1>5
  <2>2. mask # <<>> => Tail(mask) \in Seq(A)
    BY <2>1, HeadTailProperties
  <2>3. mask # <<>> => (MatchSingle(value, mask) <=> Wildcard(value, mask))
    BY <1>5, <2>1, SingleDecides
  <2>4. mask # <<>> => (MatchSingle(value, Tail(mask)) <=> Tail(mask) # <<>> /\ Wildcard(value, Tail(mask)))
    BY <1>5, <2>2, SingleDecides
  <2>5. QED
    BY <1>5, <2>3, <2>4, Zenon DEF FindsAt, ExcludesAt, Excludes
<1>6. Masks(pattern) = {MaskAt(pattern, i) : i \in Ends(pattern)} \ {<<>>}
  BY DEF Masks, Tokens, MaskAt
<1>7. CASE value # <<>>
  <2>1. (\E mask \in Masks(pattern) : ~Excludes(mask) /\ Wildcard(value, mask)) <=>
          \E i \in Ends(pattern) : FindsAt(value, pattern, i)
    <3>1. ASSUME NEW mask \in Masks(pattern), ~Excludes(mask), Wildcard(value, mask)
          PROVE  \E i \in Ends(pattern) : FindsAt(value, pattern, i)
      <4>1. PICK i \in Ends(pattern) : mask = MaskAt(pattern, i) /\ mask # <<>>
        BY <1>6
      <4>2. QED
        BY <1>5, <1>7, <3>1, <4>1
    <3>2. ASSUME NEW i \in Ends(pattern), FindsAt(value, pattern, i)
          PROVE  \E mask \in Masks(pattern) : ~Excludes(mask) /\ Wildcard(value, mask)
      <4>1. PICK mask : mask = MaskAt(pattern, i)
        OBVIOUS
      <4>2. mask # <<>> /\ ~Excludes(mask) /\ Wildcard(value, mask)
        BY <1>5, <1>7, <3>2, <4>1
      <4>3. mask \in Masks(pattern)
        BY <1>6, <4>1, <4>2
      <4>4. QED
        BY <4>2, <4>3
    <3>3. QED
      BY <3>1, <3>2
  <2>2. (\E mask \in Masks(pattern) : Excludes(mask) /\ Tail(mask) # <<>> /\ Wildcard(value, Tail(mask))) <=>
          \E i \in Ends(pattern) : ExcludesAt(value, pattern, i)
    <3>1. ASSUME NEW mask \in Masks(pattern), Excludes(mask), Tail(mask) # <<>>, Wildcard(value, Tail(mask))
          PROVE  \E i \in Ends(pattern) : ExcludesAt(value, pattern, i)
      <4>1. PICK i \in Ends(pattern) : mask = MaskAt(pattern, i) /\ mask # <<>>
        BY <1>6
      <4>2. QED
        BY <1>5, <1>7, <3>1, <4>1
    <3>2. ASSUME NEW i \in Ends(pattern), ExcludesAt(value, pattern, i)
          PROVE  \E mask \in Masks(pattern) : Excludes(mask) /\ Tail(mask) # <<>> /\ Wildcard(value, Tail(mask))
      <4>1. PICK mask : mask = MaskAt(pattern, i)
        OBVIOUS
      <4>2. mask # <<>> /\ Excludes(mask) /\ Tail(mask) # <<>> /\ Wildcard(value, Tail(mask))
        BY <1>5, <1>7, <3>2, <4>1
      <4>3. mask \in Masks(pattern)
        BY <1>6, <4>1, <4>2
      <4>4. QED
        BY <4>2, <4>3
    <3>3. QED
      BY <3>1, <3>2
  <2>3. (\E mask \in Masks(pattern) : ~Excludes(mask) /\ Wildcard(value, mask)) => pattern # <<>>
    <3>1. ASSUME pattern = <<>> PROVE Masks(pattern) = {}
      <4>1. ASSUME NEW i \in Ends(pattern) PROVE MaskAt(pattern, i) = <<>>
        <5>1. i = 1
          BY <1>2, <3>1
        <5>2. PICK m \in 0..0 : TokenTo(pattern, i) = SubSeq(pattern, m + 1, 0)
          <6>1. PICK S : S = {0} \cup {k \in 1..(i - 1) : pattern[k] = ","}
            OBVIOUS
          <6>2. S = {0}
            BY <5>1, <6>1
          <6>3. S \in SUBSET (0..0) /\ S # {}
            BY <6>2
          <6>4. Max(S) \in 0..0
            BY <6>3, MaxIs
          <6>5. QED
            BY <5>1, <6>1, <6>4 DEF TokenTo
        <5>3. TokenTo(pattern, i) = <<>>
          BY <3>1, <5>2
        <5>4. QED
          BY <5>3 DEF MaskAt, TrimSpaces
      <4>2. QED
        BY <1>6, <4>1
    <3>2. QED
      BY <3>1
  <2>4. QED
    BY <1>1, <1>3, <1>7, <2>1, <2>2, <2>3
<1>8. CASE value = <<>>
  BY <1>1, <1>8
<1>9. QED
  BY <1>7, <1>8

-----------------------------------------------------------------------------
(* Any: the text left when the stars are gone.                             *)

Kept(kept, expr) ==
  \A i \in 1..Len(expr) : kept[i] = IF expr[i] = "*" THEN kept[i - 1] ELSE Append(kept[i - 1], expr[i])

LEMMA KeptExists ==
  ASSUME NEW A, NEW expr \in Seq(A)
  PROVE  \E kept \in [0..Len(expr) -> Seq(A)] :
           kept[0] = <<>> /\ Kept(kept, expr) /\ WithoutStars(expr) = kept[Len(expr)]
<1> DEFINE Recurs(g) == g = [i \in 0..Len(expr) |->
        IF i = 0 THEN <<>> ELSE IF expr[i] = "*" THEN g[i - 1] ELSE Append(g[i - 1], expr[i])]
<1>1. PICK n \in Nat : n = Len(expr)
  OBVIOUS
<1> DEFINE Step == [i \in 1..n |-> [s \in Seq(A) |-> IF expr[i] = "*" THEN s ELSE Append(s, expr[i])]]
<1>2. Step \in Steps(n, Seq(A))
  <2>1. ASSUME NEW i \in 1..n, NEW s \in Seq(A)
        PROVE  (IF expr[i] = "*" THEN s ELSE Append(s, expr[i])) \in Seq(A)
    BY <1>1
  <2>2. QED
    BY <2>1 DEF Steps
<1>3. PICK z \in Seq(A) : z = <<>>
  <2>1. <<>> \in Seq(A)
    BY EmptySeq
  <2>2. QED
    BY <2>1, Zenon
<1>4. PICK g : g \in Walks(n, Seq(A), z, Step)
  <2> HIDE DEF Step
  <2>1. QED
    BY <1>2, WalkExists
<1>5. g \in [0..n -> Seq(A)] /\ g[0] = z /\ \A i \in 1..n : g[i] = Step[i][g[i - 1]]
  BY <1>4 DEF Walks
<1>6. ASSUME NEW i \in 1..n PROVE g[i] = IF expr[i] = "*" THEN g[i - 1] ELSE Append(g[i - 1], expr[i])
  <2>1. g[i - 1] \in Seq(A)
    <3>1. i - 1 \in 0..n
      OBVIOUS
    <3>2. QED
      BY <1>5, <3>1
  <2>2. QED
    BY <1>5, <2>1
<1>7. Recurs(g)
  <2>1. ASSUME NEW i \in 0..n
        PROVE g[i] = IF i = 0 THEN <<>> ELSE IF expr[i] = "*" THEN g[i - 1] ELSE Append(g[i - 1], expr[i])
    <3>1. CASE i = 0
      BY <1>3, <1>5, <3>1
    <3>2. CASE i # 0
      <4>1. i \in 1..n
        BY <3>2
      <4>2. QED
        BY <1>6, <3>2, <4>1
    <3>3. QED
      BY <3>1, <3>2
  <2>2. g = [i \in 0..n |-> g[i]]
    BY <1>5
  <2>3. QED
    BY <1>1, <2>1, <2>2, Zenon
<1>8. PICK kept : kept = CHOOSE h : Recurs(h)
  OBVIOUS
<1>9. Recurs(kept)
  <2> HIDE DEF Recurs
  <2>1. QED
    BY <1>7, <1>8
<1>10. WithoutStars(expr) = kept[Len(expr)]
  BY <1>8, Zenon DEF WithoutStars
<1>11. ASSUME NEW i \in 0..n
       PROVE kept[i] = IF i = 0 THEN <<>> ELSE IF expr[i] = "*" THEN kept[i - 1] ELSE Append(kept[i - 1], expr[i])
  BY <1>1, <1>9, Zenon
<1>12. kept[0] = <<>>
  <2>1. 0 \in 0..n
    OBVIOUS
  <2>2. QED
    BY <1>11, <2>1
<1>13. ASSUME NEW i \in 1..n
       PROVE kept[i] = IF expr[i] = "*" THEN kept[i - 1] ELSE Append(kept[i - 1], expr[i])
  <2>1. i \in 0..n /\ i # 0
    OBVIOUS
  <2>2. QED
    BY <1>11, <2>1
<1>14. kept \in [0..n -> Seq(A)]
  <2> DEFINE T == {i \in 0..n : kept[i] \in Seq(A)}
  <2>1. 0 \in T
    <3>1. kept[0] \in Seq(A)
      BY <1>3, <1>12, Zenon
    <3>2. 0 \in 0..n
      OBVIOUS
    <3>3. QED
      BY <3>1, <3>2
  <2>2. ASSUME NEW i \in 1..n, i - 1 \in T PROVE i \in T
    <3>1. kept[i - 1] \in Seq(A) /\ i \in 0..n /\ expr[i] \in A
      BY <1>1, <2>2
    <3>2. PICK s \in Seq(A) : s = kept[i - 1]
      BY <3>1
    <3>3. Append(s, expr[i]) \in Seq(A)
      BY <3>1
    <3>4. kept[i] \in Seq(A)
      BY <1>13, <3>2, <3>3, Zenon
    <3>5. QED
      BY <3>1, <3>4
  <2>3. 0..n \subseteq T
    <3> HIDE DEF T
    <3>1. QED
      BY <2>1, <2>2, CountUp
  <2>4. kept = [i \in 0..n |-> kept[i]]
    BY <1>1, <1>9, Zenon
  <2>5. \A i \in 0..n : kept[i] \in Seq(A)
    BY <2>3
  <2>6. QED
    BY <2>4, <2>5
<1>15. QED
  BY <1>1, <1>10, <1>12, <1>13, <1>14 DEF Kept

\* With stars at the ends only, what is left is the piece between them.
LEMMA KeptPiece ==
  ASSUME NEW A, NEW expr \in Seq(A), NEW off \in {0, 1}, NEW n \in Nat,
         off = 1 => expr[1] = "*", NoStars(expr, off + 1, n),
         \/ Len(expr) = off + n
         \/ Len(expr) = off + n + 1 /\ expr[off + n + 1] = "*"
  PROVE  /\ WithoutStars(expr) \in Seq(A) /\ Len(WithoutStars(expr)) = n
         /\ \A k \in 1..n : WithoutStars(expr)[k] = expr[off + k]
<1>1. PICK kept \in [0..Len(expr) -> Seq(A)] :
        kept[0] = <<>> /\ Kept(kept, expr) /\ WithoutStars(expr) = kept[Len(expr)]
  BY KeptExists
<1>2. PICK len \in Nat : len = Len(expr) /\ len >= off + n
  <2>1. Len(expr) >= off + n
    OBVIOUS
  <2>2. QED
    BY <2>1
<1>3. ASSUME NEW i \in 1..len
      PROVE  /\ expr[i] = "*" => kept[i] = kept[i - 1]
             /\ expr[i] # "*" => kept[i] = Append(kept[i - 1], expr[i])
             /\ expr[i] \in A
  <2>1. kept[i] = IF expr[i] = "*" THEN kept[i - 1] ELSE Append(kept[i - 1], expr[i])
    BY <1>1, <1>2, Zenon DEF Kept
  <2>2. expr[i] \in A
    BY <1>2
  <2>3. QED
    BY <2>1, <2>2, Zenon
<1>4. kept[off] = <<>> /\ off \in 0..len
  <2>1. CASE off = 0
    BY <1>1, <1>2, <2>1
  <2>2. CASE off = 1
    <3>1. 1 \in 1..len /\ expr[1] = "*" /\ 1 - 1 = 0
      BY <1>2, <2>2
    <3>2. QED
      BY <1>1, <1>3, <2>2, <3>1
  <2>3. QED
    BY <2>1, <2>2
<1> DEFINE Part(m) == Len(kept[off + m]) = m /\ \A k \in 1..m : kept[off + m][k] = expr[off + k]
           T == {m \in 0..n : Part(m)}
<1>5. 0 \in T
  BY <1>4
<1>6. ASSUME NEW m \in 1..n, m - 1 \in T PROVE m \in T
  <2>1. PICK i \in 1..len : i = off + m /\ i - 1 = off + (m - 1)
    BY <1>2
  <2>2. expr[i] # "*"
    <3>1. m - 1 \in 0..(n - 1) /\ off + 1 + (m - 1) = i
      BY <2>1
    <3>2. expr[off + 1 + (m - 1)] # "*"
      BY <3>1 DEF NoStars
    <3>3. QED
      BY <3>1, <3>2
  <2>3. PICK s \in Seq(A) : s = kept[i - 1] /\ Len(s) = m - 1 /\ \A k \in 1..(m - 1) : s[k] = expr[off + k]
    <3>1. i - 1 \in 0..Len(expr)
      BY <1>2
    <3>2. kept[i - 1] \in Seq(A)
      BY <3>1
    <3>3. Part(m - 1)
      BY <1>6
    <3>4. QED
      BY <2>1, <3>2, <3>3
  <2>4. kept[i] = Append(s, expr[i]) /\ expr[i] \in A
    BY <1>3, <2>2, <2>3
  <2>5. PICK u : u = Append(s, expr[i])
    OBVIOUS
  <2>6. Len(u) = m /\ u[m] = expr[off + m] /\ \A k \in 1..(m - 1) : u[k] = expr[off + k]
    BY <2>1, <2>3, <2>4, <2>5
  <2>7. \A k \in 1..m : k = m \/ k \in 1..(m - 1)
    OBVIOUS
  <2>8. Part(m)
    BY <2>1, <2>4, <2>5, <2>6, <2>7
  <2>9. m \in 0..n
    OBVIOUS
  <2>10. QED
    BY <2>8, <2>9, Zenon
<1>7. n \in T
  <2> HIDE DEF T
  <2>1. 0..n \subseteq T
    BY <1>5, <1>6, CountUp
  <2>2. QED
    BY <2>1
<1>8. kept[Len(expr)] = kept[off + n] /\ kept[Len(expr)] \in Seq(A)
  <2>1. kept[Len(expr)] \in Seq(A)
    BY <1>2
  <2>2. CASE Len(expr) = off + n
    BY <2>1, <2>2
  <2>3. CASE Len(expr) = off + n + 1 /\ expr[off + n + 1] = "*"
    <3>1. off + n + 1 \in 1..len /\ (off + n + 1) - 1 = off + n
      BY <1>2, <2>3
    <3>2. QED
      BY <1>3, <2>1, <2>3, <3>1
  <2>4. QED
    BY <2>2, <2>3
<1>9. QED
  BY <1>1, <1>7, <1>8

\* A star at the ends only: Any compares what is left as MatchSingle would.
LEMMA AnySingleDecides ==
  ASSUME NEW A, NEW value \in Seq(A), NEW expr \in Seq(A), ~InnerStar(expr)
  PROVE  AnySingle(value, expr) <=> Wildcard(value, expr)
<1>1. PICK len \in Nat : len = Len(expr)
  OBVIOUS
<1>2. PICK text : text = WithoutStars(expr)
  OBVIOUS
<1> DEFINE prefix == expr # <<>> /\ Head(expr) = "*"
           suffix == expr # <<>> /\ Last(expr) = "*"
<1>3. AnySingle(value, expr) <=>
        \/ expr = <<"*">>
        \/ CASE prefix /\ ~suffix -> IsSuffix(text, value)
             [] ~prefix /\ suffix -> IsPrefix(text, value)
             [] prefix /\ suffix -> Occurs(text, value)
             [] OTHER -> value = text
  BY <1>2, Zenon DEF AnySingle
<1>4. /\ prefix <=> len > 0 /\ expr[1] = "*"
      /\ suffix <=> len > 0 /\ expr[len] = "*"
      /\ expr = <<"*">> <=> len = 1 /\ expr[1] = "*"
  BY <1>1 DEF Last
<1>5. \A i \in 2..(len - 1) : expr[i] # "*"
  BY <1>1 DEF InnerStar
<1>6. ASSUME NEW i \in {1, 2}, NEW m \in Nat, i + m <= len + 1, i = 1 /\ len > 0 => expr[1] # "*",
             i + m = len + 1 /\ len > 1 => expr[len] # "*"
      PROVE  NoStars(expr, i, m)
  <2>1. ASSUME NEW k \in 0..(m - 1) PROVE expr[i + k] # "*"
    <3>1. i + k \in 1..len
      BY <1>6
    <3>2. CASE i + k \in 2..(len - 1)
      BY <1>5, <3>2
    <3>3. CASE i + k = 1
      BY <1>6, <3>1, <3>3
    <3>4. CASE i + k = len /\ len > 1
      BY <1>6, <3>4
    <3>5. i + k \in 2..(len - 1) \/ i + k = 1 \/ (i + k = len /\ len > 1)
      BY <3>1
    <3>6. QED
      BY <3>2, <3>3, <3>4, <3>5
  <2>2. QED
    BY <2>1 DEF NoStars
<1> HIDE DEF prefix, suffix
<1>7. CASE expr = <<"*">>
  <2>1. AnySingle(value, expr)
    BY <1>3, <1>4, <1>7
  <2>2. Len(expr) = 1 /\ expr[1] = "*"
    BY <1>7
  <2>3. Wildcard(value, expr)
    BY <2>2, OneStar
  <2>4. QED
    BY <2>1, <2>3
<1>8. CASE ~(expr = <<"*">>) /\ prefix /\ ~suffix
  <2>1. PICK n \in Nat : len = n + 1 /\ len > 1
    BY <1>4, <1>8
  <2>2. NoStars(expr, 2, n)
    BY <1>4, <1>6, <1>8, <2>1
  <2>3. text \in Seq(A) /\ Len(text) = n /\ \A k \in 1..n : text[k] = expr[1 + k]
    <3>1. PICK off \in {0, 1} : off = 1 /\ off + 1 = 2
      OBVIOUS
    <3>2. (off = 1 => expr[1] = "*") /\ NoStars(expr, off + 1, n) /\ Len(expr) = off + n
      BY <1>1, <1>4, <1>8, <2>1, <2>2, <3>1
    <3>3. /\ WithoutStars(expr) \in Seq(A) /\ Len(WithoutStars(expr)) = n
          /\ \A k \in 1..n : WithoutStars(expr)[k] = expr[off + k]
      BY <3>2, KeptPiece
    <3>4. QED
      BY <1>2, <3>1, <3>3
  <2>4. expr[1] = "*" /\ Len(expr) = n + 1
    BY <1>1, <1>4, <1>8, <2>1
  <2>5. Wildcard(value, expr) <=> IsSuffix(text, value)
    BY <2>2, <2>3, <2>4, TextAtEnd
  <2>6. QED
    BY <1>3, <1>8, <2>5
<1>9. CASE ~(expr = <<"*">>) /\ ~prefix /\ suffix
  <2>1. PICK n \in Nat : len = n + 1 /\ len > 1
    BY <1>4, <1>9
  <2>2. NoStars(expr, 1, n)
    BY <1>4, <1>6, <1>9, <2>1
  <2>3. text \in Seq(A) /\ Len(text) = n /\ \A k \in 1..n : text[k] = expr[k]
    <3>1. PICK off \in {0, 1} : off = 0 /\ off + 1 = 1 /\ off # 1
      OBVIOUS
    <3>2. /\ off = 1 => expr[1] = "*"
          /\ NoStars(expr, off + 1, n) /\ Len(expr) = off + n + 1 /\ expr[off + n + 1] = "*"
      BY <1>1, <1>4, <1>9, <2>1, <2>2, <3>1
    <3>3. /\ WithoutStars(expr) \in Seq(A) /\ Len(WithoutStars(expr)) = n
          /\ \A k \in 1..n : WithoutStars(expr)[k] = expr[off + k]
      BY <3>2, KeptPiece
    <3>4. \A k \in 1..n : off + k = k
      BY <3>1
    <3>5. QED
      BY <1>2, <3>3, <3>4
  <2>4. expr[n + 1] = "*" /\ Len(expr) = n + 1
    BY <1>1, <1>4, <1>9, <2>1
  <2>5. Wildcard(value, expr) <=> IsPrefix(text, value)
    BY <2>2, <2>3, <2>4, TextAtStart
  <2>6. QED
    BY <1>3, <1>9, <2>5
<1>10. CASE ~(expr = <<"*">>) /\ prefix /\ suffix
  <2>1. PICK n \in Nat : len = n + 2 /\ len > 1
    BY <1>4, <1>10
  <2>2. NoStars(expr, 2, n)
    BY <1>4, <1>6, <1>10, <2>1
  <2>3. text \in Seq(A) /\ Len(text) = n /\ \A k \in 1..n : text[k] = expr[1 + k]
    <3>1. PICK off \in {0, 1} : off = 1 /\ off + 1 = 2
      OBVIOUS
    <3>2. /\ off = 1 => expr[1] = "*"
          /\ NoStars(expr, off + 1, n) /\ Len(expr) = off + n + 1 /\ expr[off + n + 1] = "*"
      BY <1>1, <1>4, <1>10, <2>1, <2>2, <3>1
    <3>3. /\ WithoutStars(expr) \in Seq(A) /\ Len(WithoutStars(expr)) = n
          /\ \A k \in 1..n : WithoutStars(expr)[k] = expr[off + k]
      BY <3>2, KeptPiece
    <3>4. QED
      BY <1>2, <3>1, <3>3
  <2>4. expr[1] = "*" /\ expr[n + 2] = "*" /\ Len(expr) = n + 2
    BY <1>1, <1>4, <1>10, <2>1
  <2>5. Wildcard(value, expr) <=> Occurs(text, value)
    BY <2>2, <2>3, <2>4, TextInside
  <2>6. QED
    BY <1>3, <1>10, <2>5
<1>11. CASE ~(expr = <<"*">>) /\ ~prefix /\ ~suffix
  <2>1. NoStars(expr, 1, len)
    BY <1>4, <1>6, <1>11
  <2>2. text = expr
    <3>1. PICK off \in {0, 1} : off = 0 /\ off + 1 = 1 /\ off # 1
      OBVIOUS
    <3>2. (off = 1 => expr[1] = "*") /\ NoStars(expr, off + 1, len) /\ Len(expr) = off + len
      BY <1>1, <2>1, <3>1
    <3>3. /\ WithoutStars(expr) \in Seq(A) /\ Len(WithoutStars(expr)) = len
          /\ \A k \in 1..len : WithoutStars(expr)[k] = expr[off + k]
      BY <3>2, KeptPiece
    <3>4. text \in Seq(A) /\ Len(text) = Len(expr) /\ \A k \in 1..Len(text) : text[k] = expr[k]
      BY <1>1, <1>2, <3>1, <3>3
    <3>5. QED
      BY <3>4, SameList
  <2>3. Wildcard(value, expr) <=> value = expr
    BY <1>1, <2>1, PlainText
  <2>4. QED
    BY <1>3, <1>11, <2>2, <2>3
<1>12. QED
  BY <1>7, <1>8, <1>9, <1>10, <1>11

LEMMA EmptyList ==
  ASSUME NEW A, NEW s \in Seq(A), s = <<>>, NEW i \in Ends(s)
  PROVE  TokenTo(s, i) = <<>>
<1>1. i = 1
  BY DEF Ends
<1>2. PICK S : S = {0} \cup {k \in 1..(i - 1) : s[k] = ","}
  OBVIOUS
<1>3. S = {0}
  BY <1>1, <1>2
<1>4. S \in SUBSET (0..0) /\ S # {}
  BY <1>3
<1>5. Max(S) \in 0..0
  BY <1>4, MaxIs
<1>6. PICK m \in 0..0 : TokenTo(s, i) = SubSeq(s, m + 1, 0)
  BY <1>1, <1>2, <1>5 DEF TokenTo
<1>7. QED
  BY <1>6

LEMMA AnyDecides ==
  ASSUME NEW A, NEW value \in Seq(A), NEW pattern \in Seq(A),
         \A token \in Tokens(pattern) : ~InnerStar(Plain(token))
  PROVE  AnyMatch(value, pattern) <=>
           \E token \in Tokens(pattern) :
             token # <<>> /\ (Head(token) = "!" <=> ~Wildcard(value, Plain(token)))
<1>1. ASSUME NEW token \in Tokens(pattern)
      PROVE  AnyToken(value, token) <=>
               token # <<>> /\ (Head(token) = "!" <=> ~Wildcard(value, Plain(token)))
  <2>1. token \in Seq(A)
    BY TokensTyped DEF Tokens
  <2>2. Plain(token) \in Seq(A)
    BY <2>1, HeadTailProperties DEF Plain
  <2>3. AnySingle(value, Plain(token)) <=> Wildcard(value, Plain(token))
    BY <2>2, AnySingleDecides
  <2>4. QED
    BY <2>3 DEF AnyToken, Plain
<1>2. pattern = <<>> => \A token \in Tokens(pattern) : token = <<>>
  BY EmptyList DEF Tokens
<1>3. QED
  BY <1>1, <1>2 DEF AnyMatch

-----------------------------------------------------------------------------
Chars == Letters \cup {"A", "*", "!", ",", " "}

LEMMA InputsTyped ==
  ASSUME NEW max
  PROVE  /\ Values(max) \subseteq Seq(Chars)
         /\ Exprs \subseteq Seq(Chars) /\ Patterns \subseteq Seq(Chars)
<1>1. ASSUME NEW n \in Nat, NEW S \in SUBSET Chars, NEW s \in [1..n -> S] PROVE s \in Seq(Chars)
  OBVIOUS
<1>2. ASSUME NEW b, NEW n \in 0..b PROVE n \in Nat
  OBVIOUS
<1>3. Letters \cup {"A"} \in SUBSET Chars /\ Letters \cup {"*"} \in SUBSET Chars
      /\ Letters \cup {"*", "!", ",", " "} \in SUBSET Chars
  BY DEF Chars
<1>4. QED
  BY <1>1, <1>2, <1>3, Zenon DEF Values, Exprs, Patterns

MatchersRight == SingleIsWildcard /\ MatchIsMaskList /\ AnyIsDisjunction

LEMMA MatchingStep ==
  ASSUME MatchersRight, [MatchingNext]_matchVars
  PROVE  MatchersRight'
<1>1. CASE UNCHANGED matchVars
  BY <1>1 DEF MatchersRight, SingleIsWildcard, MatchIsMaskList, AnyIsDisjunction, matchVars
<1>2. ASSUME NEW name, NEW value, NEW pattern, NEW result, Returns(name, value, pattern, result)
      PROVE  /\ mxCall'.fn = name /\ mxCall'.value = value
             /\ mxCall'.pattern = pattern /\ mxCall'.result = result
  BY <1>2, Zenon DEF Returns
<1>3. ASSUME NEW value \in Values(MaxValue), NEW expr \in Exprs,
             Returns("single", value, expr, MatchSingle(value, expr))
      PROVE  MatchersRight'
  <2>1. value \in Seq(Chars) /\ expr \in Seq(Chars)
    BY InputsTyped
  <2>2. MatchSingle(value, expr) <=> value # <<>> /\ expr # <<>> /\ Wildcard(value, expr)
    BY <2>1, SingleDecides
  <2>3. /\ mxCall'.fn = "single" /\ mxCall'.value = value
        /\ mxCall'.pattern = expr /\ mxCall'.result = MatchSingle(value, expr)
    BY <1>2, <1>3
  <2>4. QED
    BY <2>2, <2>3, Zenon DEF MatchersRight, SingleIsWildcard, MatchIsMaskList, AnyIsDisjunction
<1>4. ASSUME NEW value \in Values(MaxListed), NEW pattern \in Patterns,
             Returns("match", value, pattern, Match(value, pattern))
      PROVE  MatchersRight'
  <2>1. value \in Seq(Chars) /\ pattern \in Seq(Chars)
    BY InputsTyped
  <2>2. Match(value, pattern) <=>
           /\ value # <<>>
           /\ \E mask \in Masks(pattern) : ~Excludes(mask) /\ Wildcard(value, mask)
           /\ ~\E mask \in Masks(pattern) :
                 Excludes(mask) /\ Tail(mask) # <<>> /\ Wildcard(value, Tail(mask))
    BY <2>1, MatchDecides
  <2>3. /\ mxCall'.fn = "match" /\ mxCall'.value = value
        /\ mxCall'.pattern = pattern /\ mxCall'.result = Match(value, pattern)
    BY <1>2, <1>4
  <2>4. QED
    BY <2>2, <2>3, Zenon DEF MatchersRight, SingleIsWildcard, MatchIsMaskList, AnyIsDisjunction
<1>5. ASSUME NEW value \in Values(MaxListed), NEW pattern \in Patterns,
             Returns("any", value, pattern, AnyMatch(value, pattern))
      PROVE  MatchersRight'
  <2>1. value \in Seq(Chars) /\ pattern \in Seq(Chars)
    BY InputsTyped
  <2>2. (\A token \in Tokens(pattern) : ~InnerStar(Plain(token))) =>
          (AnyMatch(value, pattern) <=>
             \E token \in Tokens(pattern) :
               token # <<>> /\ (Head(token) = "!" <=> ~Wildcard(value, Plain(token))))
    BY <2>1, AnyDecides, Zenon
  <2>3. /\ mxCall'.fn = "any" /\ mxCall'.value = value
        /\ mxCall'.pattern = pattern /\ mxCall'.result = AnyMatch(value, pattern)
    BY <1>2, <1>5
  <2>4. QED
    BY <2>2, <2>3, Zenon DEF MatchersRight, SingleIsWildcard, MatchIsMaskList, AnyIsDisjunction
<1>6. ASSUME NEW name \in {"matchIE", "anyIE"}, NEW value, NEW pattern, NEW result,
             Returns(name, value, pattern, result)
      PROVE  MatchersRight'
  <2>1. mxCall'.fn = name
    BY <1>2, <1>6
  <2>2. QED
    BY <2>1 DEF MatchersRight, SingleIsWildcard, MatchIsMaskList, AnyIsDisjunction
<1>7. QED
  BY <1>1, <1>3, <1>4, <1>5, <1>6 DEF MatchingNext

-----------------------------------------------------------------------------
(* EvalGen: what was tested knows its variables.                           *)

LEMMA CallShape ==
  ASSUME NEW call \in Calls
  PROVE  Len(call) \in Nat /\ \A i \in 2..Len(call) : call[i] \in Args
<1>1. ASSUME NEW f, NEW n \in Nat, NEW args \in [1..n -> Args], call = CallOf(f, args)
      PROVE  Len(call) \in Nat /\ \A i \in 2..Len(call) : call[i] \in Args
  <2>1. args \in Seq(Args) /\ Len(args) = n
    OBVIOUS
  <2>2. Len(call) = n + 1
    BY <1>1, <2>1 DEF CallOf
  <2>3. ASSUME NEW i \in 2..(n + 1) PROVE call[i] \in Args
    <3>1. i - 1 \in 1..n /\ call[i] = args[i - 1]
      BY <1>1, <2>1 DEF CallOf
    <3>2. QED
      BY <3>1
  <2>4. QED
    BY <2>2, <2>3
<1>2. ASSUME NEW S \in SUBSET Args, NEW args \in [1..3 -> S] PROVE args \in [1..3 -> Args]
  OBVIOUS
<1>3. {a \in Args : a.var # "n"} \in SUBSET Args /\ {a \in Args : a.var # "x"} \in SUBSET Args
  OBVIOUS
<1>4. 2 \in Nat /\ 3 \in Nat
  OBVIOUS
<1>5. CASE \E f \in Funcs, args \in [1..2 -> Args] : call = CallOf(f, args)
  BY <1>1, <1>4, <1>5
<1>6. CASE \E args \in [1..3 -> {a \in Args : a.var # "n"}] : call = CallOf("range", args)
  <2>1. PICK args \in [1..3 -> {a \in Args : a.var # "n"}] : call = CallOf("range", args)
    BY <1>6
  <2>2. args \in [1..3 -> Args]
    BY <1>2, <1>3
  <2>3. QED
    BY <1>1, <1>4, <2>1, <2>2
<1>7. CASE \E args \in [1..3 -> {a \in Args : a.var # "x"}] : call = CallOf("in", args)
  <2>1. PICK args \in [1..3 -> {a \in Args : a.var # "x"}] : call = CallOf("in", args)
    BY <1>7
  <2>2. args \in [1..3 -> Args]
    BY <1>2, <1>3
  <2>3. QED
    BY <1>1, <1>4, <2>1, <2>2
<1>8. \/ \E f \in Funcs, args \in [1..2 -> Args] : call = CallOf(f, args)
      \/ \E args \in [1..3 -> {a \in Args : a.var # "n"}] : call = CallOf("range", args)
      \/ \E args \in [1..3 -> {a \in Args : a.var # "x"}] : call = CallOf("in", args)
  BY DEF Calls
<1>9. QED
  BY <1>5, <1>6, <1>7, <1>8

LEMMA ContextLacks ==
  ASSUME NEW ctx \in Contexts, NEW v \in {"s", "n", "x"}
  PROVE  ctx[v] = Missing <=> v = "x"
<1>1. PICK s \in Texts, n \in {1, 2} : ctx = Context(s, n)
  BY DEF Contexts
<1>2. Str(s) # Missing /\ Num(n) # Missing
  BY DEF Str, Num, Missing
<1>3. ctx["s"] = Str(s) /\ ctx["n"] = Num(n) /\ ctx["x"] = Missing
  BY <1>1 DEF Context
<1>4. QED
  BY <1>2, <1>3

LEMMA ArgKnown ==
  ASSUME NEW ctx \in Contexts, NEW arg \in Args
  PROVE  ArgValue(arg, ctx) = Missing <=> arg.var = "x"
<1>1. CASE arg \in {[var |-> v, lit |-> Missing] : v \in {"s", "n", "x"}}
  <2>1. arg.var \in {"s", "n", "x"}
    BY <1>1
  <2>2. QED
    BY <2>1, ContextLacks DEF ArgValue
<1>2. CASE arg \in {[var |-> "none", lit |-> l] : l \in Literals}
  <2>1. arg.var = "none" /\ arg.lit \in Literals
    BY <1>2
  <2>2. arg.lit # Missing
    BY <2>1 DEF Literals, Str, Num, Missing
  <2>3. QED
    BY <2>1, <2>2 DEF ArgValue
<1>3. QED
  BY <1>1, <1>2 DEF Args

LEMMA CallOutcome ==
  ASSUME NEW f, NEW args
  PROVE  /\ InFunc(args) \in {"error", "true", "false"}
         /\ TypedCall(f, args) \in {"error", "true", "false"}
<1>1. InFunc(args) \in {"error", "true", "false"}
  BY DEF InFunc
<1>2. TypedCall(f, args) \in {"error", "true", "false"}
  <2>1. \A P, Q : (IF P THEN "error" ELSE IF Q THEN "true" ELSE "false") \in {"error", "true", "false"}
    OBVIOUS
  <2>2. QED
    BY <2>1, Zenon DEF TypedCall
<1>3. QED
  BY <1>1, <1>2

\* Only a variable the context lacks makes a call miss a parameter.
LEMMA CallMisses ==
  ASSUME NEW ctx \in Contexts, NEW call \in Calls, EvalCall(call, ctx) = "missing"
  PROVE  \E i \in 2..Len(call) : call[i].var = "x"
<1>1. PICK n \in Nat : n = Len(call) /\ \A i \in 2..n : call[i] \in Args
  BY CallShape
<1>2. PICK args : args = [i \in 1..(n - 1) |-> ArgValue(call[i + 1], ctx)]
  OBVIOUS
<1>3. EvalCall(call, ctx) =
        IF \E i \in DOMAIN args : args[i] = Missing THEN "missing"
        ELSE IF Head(call) = "in" THEN InFunc(args) ELSE TypedCall(Head(call), args)
  BY <1>1, <1>2, Zenon DEF EvalCall
<1>4. InFunc(args) # "missing" /\ TypedCall(Head(call), args) # "missing"
  BY CallOutcome
<1>5. PICK i \in DOMAIN args : args[i] = Missing
  BY <1>3, <1>4
<1>6. i \in 1..(n - 1) /\ i + 1 \in 2..n /\ args[i] = ArgValue(call[i + 1], ctx)
  BY <1>2
<1>7. call[i + 1].var = "x"
  BY <1>1, <1>5, <1>6, ArgKnown
<1>8. QED
  BY <1>1, <1>6, <1>7

LEMMA ExprMisses ==
  ASSUME NEW ctx \in Contexts, NEW expr \in Expressions, EvalExpr(expr, ctx) = "missing"
  PROVE  "x" \in VarsOf(expr)
<1>1. ASSUME NEW k \in DOMAIN expr, expr[k] \in Calls, EvalCall(expr[k], ctx) = "missing"
      PROVE  "x" \in VarsOf(expr)
  <2>1. PICK i \in 2..Len(expr[k]) : expr[k][i].var = "x"
    BY <1>1, CallMisses
  <2>2. PICK vars : vars = {expr[k][j].var : j \in 2..Len(expr[k])}
    OBVIOUS
  <2>3. "x" \in vars
    BY <2>1, <2>2
  <2>4. vars \in {{expr[m][j].var : j \in 2..Len(expr[m])} : m \in DOMAIN expr}
    BY <2>2, Zenon
  <2>5. "x" \in UNION {{expr[m][j].var : j \in 2..Len(expr[m])} : m \in DOMAIN expr}
    BY <2>3, <2>4, Zenon
  <2>6. "x" # "none"
    OBVIOUS
  <2>7. QED
    BY <2>5, <2>6, Zenon DEF VarsOf
<1>2. /\ 1 \in DOMAIN expr /\ Head(expr) = expr[1] /\ expr[1] \in Calls
      /\ Len(expr) = 2 => 2 \in DOMAIN expr /\ expr[2] \in Calls
  <2>1. CASE expr \in {<<c>> : c \in Calls}
    BY <2>1
  <2>2. CASE \E c, d \in Calls : expr = <<c, d>>
    BY <2>2
  <2>3. QED
    BY <2>1, <2>2 DEF Expressions
<1>3. EvalCall(expr[1], ctx) = "missing" \/ (Len(expr) = 2 /\ EvalCall(expr[2], ctx) = "missing")
  BY <1>2, Zenon DEF EvalExpr
<1>4. CASE EvalCall(expr[1], ctx) = "missing"
  <2>1. 1 \in DOMAIN expr /\ expr[1] \in Calls
    BY <1>2
  <2>2. QED
    BY <1>1, <1>4, <2>1, Zenon
<1>5. CASE Len(expr) = 2 /\ EvalCall(expr[2], ctx) = "missing"
  <2>1. 2 \in DOMAIN expr /\ expr[2] \in Calls
    BY <1>2, <1>5
  <2>2. QED
    BY <1>1, <1>5, <2>1, Zenon
<1>6. QED
  BY <1>3, <1>4, <1>5

EvalIInv ==
  /\ evResult = "none" => evExpr = <<>>
  /\ evTested /\ evExpr # <<>> =>
       evExpr \in Expressions /\ "x" \notin VarsOf(evExpr) /\ evResult # "missing"

LEMMA TestContext == TheTest \in Contexts
<1>1. \E ctx \in Contexts : ctx.s = Str(<<"a">>) /\ ctx.n = Num(1)
  <2>1. PICK ctx : ctx = Context(<<"a">>, 1)
    OBVIOUS
  <2>2. ctx \in Contexts
    <3>1. <<"a">> \in Texts
      BY DEF Texts
    <3>2. QED
      BY <2>1, <3>1 DEF Contexts
  <2>3. ctx.s = Str(<<"a">>) /\ ctx.n = Num(1)
    BY <2>1 DEF Context
  <2>4. QED
    BY <2>2, <2>3
<1>2. QED
  BY <1>1, Zenon DEF TheTest

LEMMA EvalStep ==
  ASSUME EvalIInv, [EvalNext]_evalVars
  PROVE  EvalIInv'
<1>1. CASE UNCHANGED evalVars
  BY <1>1 DEF EvalIInv, evalVars
<1>2. ASSUME NEW expr \in Expressions, NEW tested \in BOOLEAN, NEW defaults \in BOOLEAN,
             Gen(expr, TheTest, tested, defaults)
      PROVE  EvalIInv'
  <2>1. PICK outcome : outcome = IF tested THEN TestOutcome(expr, TheTest) ELSE "true"
    OBVIOUS
  <2>2. /\ evResult = "none" /\ evTested' = tested
        /\ \/ evResult' = "parse" /\ evExpr' = evExpr
           \/ outcome \in {"true", "false"} /\ evResult' = "accepted" /\ evExpr' = expr
           \/ outcome \notin {"true", "false"} /\ evResult' = outcome /\ evExpr' = evExpr
    BY <1>2, <2>1, Zenon DEF Gen
  <2>3. evExpr = <<>>
    BY <2>2 DEF EvalIInv
  <2>4. CASE evResult' = "parse" /\ evExpr' = evExpr
    BY <2>3, <2>4 DEF EvalIInv
  <2>5. CASE outcome \in {"true", "false"} /\ evResult' = "accepted" /\ evExpr' = expr
    <3>1. ASSUME tested PROVE "x" \notin VarsOf(expr)
      <4>1. TestOutcome(expr, TheTest) \in {"true", "false"}
        BY <2>1, <2>5, <3>1
      <4>2. ~\E v \in VarsOf(expr) : TheTest[v] = Missing
        <5>1. EvalExpr(expr, TheTest) \in {"true", "false"} \/ EvalExpr(expr, TheTest) \notin {"true", "false"}
          OBVIOUS
        <5>2. QED
          BY <4>1 DEF TestOutcome
      <4>3. TheTest["x"] = Missing
        BY TestContext, ContextLacks
      <4>4. QED
        BY <4>2, <4>3
    <3>2. QED
      BY <2>2, <2>5, <3>1 DEF EvalIInv
  <2>6. CASE outcome \notin {"true", "false"} /\ evResult' = outcome /\ evExpr' = evExpr
    BY <2>3, <2>6 DEF EvalIInv
  <2>7. QED
    BY <2>2, <2>4, <2>5, <2>6
<1>3. ASSUME NEW ctx \in Contexts, Evaluate(ctx)
      PROVE  EvalIInv'
  <2>1. evExpr # <<>> /\ evResult' = EvalExpr(evExpr, ctx) /\ evExpr' = evExpr /\ evTested' = evTested
    BY <1>3 DEF Evaluate
  <2>2. EvalExpr(evExpr, ctx) # "none"
    <3>1. ASSUME NEW call PROVE EvalCall(call, ctx) # "none"
      BY CallOutcome DEF EvalCall
    <3>2. QED
      BY <3>1, Zenon DEF EvalExpr
  <2>3. evTested => EvalExpr(evExpr, ctx) # "missing"
    BY <2>1, ExprMisses DEF EvalIInv
  <2>4. QED
    BY <2>1, <2>2, <2>3 DEF EvalIInv
<1>4. QED
  BY <1>1, <1>2, <1>3 DEF EvalNext

(***************************************************************************)
(* The matchers decide the plain meaning of their patterns for every value *)
(* and every pattern over any letters, however long: MatchSingle by its    *)
(* special cases or by the backtracking loop, Match and Any over a list;   *)
(* and an expression of them accepted after a test never misses a          *)
(* parameter (utils.go:51-216, eval.go:79-86).                             *)
(***************************************************************************)
THEOREM MatchersDecide == MatchingSpec /\ EvalSpec => []ExpressionsCorrect
<1>1. MatchingInit => MatchersRight
  BY DEF MatchingInit, NoCallYet, MatchersRight, SingleIsWildcard, MatchIsMaskList, AnyIsDisjunction
<1>2. EvalInit => EvalIInv
  BY DEF EvalInit, EvalIInv
<1>3. MatchersRight /\ [MatchingNext]_matchVars => MatchersRight'
  BY MatchingStep
<1>4. EvalIInv /\ [EvalNext]_evalVars => EvalIInv'
  BY EvalStep
<1>5. MatchersRight /\ EvalIInv => ExpressionsCorrect
  BY DEF MatchersRight, EvalIInv, ExpressionsCorrect, AcceptedKnowsVariables
<1>6. QED
  BY <1>1, <1>2, <1>3, <1>4, <1>5, PTL DEF MatchingSpec, EvalSpec
=============================================================================
