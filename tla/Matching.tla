------------------------------ MODULE Matching ------------------------------
(***************************************************************************)
(* The matchers of utils/utils.go: Match and its backtracking loop, and    *)
(* the older Any.  A string is a sequence of the characters that matter: a *)
(* letter in lower or upper case, '*', '!', ',' and ' '.  Each action is a *)
(* call with its result, so TLC checks every value against every pattern   *)
(* of the instance.                                                        *)
(***************************************************************************)
EXTENDS Integers, Sequences, SequencesExt, FiniteSetsExt

CONSTANTS Letters,      \* the lower case letters of values and patterns
          MaxValue,     \* bounds the length of a value of MatchSingle
          MaxListed,    \* bounds the length of a value of the list matchers
          MaxPattern    \* bounds the length of a pattern

ASSUME MatchingAssumption ==
  /\ MaxValue \in Nat /\ MaxListed \in Nat /\ MaxPattern \in Nat
  /\ Letters \cap {"A", "*", "!", ",", " "} = {}

VARIABLE mxCall   \* the last call: function, arguments and result
matchVars == mxCall

Values(max) == UNION {[1..n -> Letters \cup {"A"}] : n \in 0..max}
Exprs == UNION {[1..n -> Letters \cup {"*"}] : n \in 0..MaxPattern}
Patterns == UNION {[1..n -> Letters \cup {"*", "!", ",", " "}] : n \in 0..MaxPattern}

ToLower(s) == [i \in DOMAIN s |-> IF s[i] = "A" THEN "a" ELSE s[i]]

\* The pieces of s between its commas: one ends before each comma, one at the
\* end (strings.Split, utils.go:59-63).
Ends(s) == {i \in 1..(Len(s) + 1) : i = Len(s) + 1 \/ s[i] = ","}
TokenTo(s, end) == SubSeq(s, Max({0} \cup {i \in 1..(end - 1) : s[i] = ","}) + 1, end - 1)
Tokens(s) == {TokenTo(s, end) : end \in Ends(s)}

TrimSpaces(t) ==
  LET solid == {i \in DOMAIN t : t[i] # " "}
  IN  IF solid = {} THEN <<>> ELSE SubSeq(t, Min(solid), Max(solid))

\* After a mismatch the loop goes back to the last '*', if there was one.
MayBacktrack_once(e, backE) == backE # 0 /\ e = backE + 1
MayBacktrack(e, backE) == backE # 0

\* The places of matchIterative in the value and the expression, and those of the
\* last '*' seen and of where its text began.
MatchStates == [v : Nat, e : Nat, backV : Nat, backE : Nat]

AtStar(expr, s) == s.e <= Len(expr) /\ expr[s.e] = "*"
AtEqual(value, expr, s) == s.e <= Len(expr) /\ expr[s.e] = value[s.v]

\* One turn of its loop; it ends with the value, or without a place to go back to.
LoopTurn(value, expr, s) ==
  IF AtStar(expr, s) THEN [s EXCEPT !.e = @ + 1, !.backV = s.v, !.backE = s.e]
  ELSE IF AtEqual(value, expr, s) THEN [s EXCEPT !.v = @ + 1, !.e = @ + 1]
  ELSE [s EXCEPT !.v = s.backV + 1, !.e = s.backE + 1, !.backV = @ + 1]

Stuck(value, expr, s) ==
  ~AtStar(expr, s) /\ ~AtEqual(value, expr, s) /\ ~MayBacktrack(s.e, s.backE)

MatchIterative(value, expr) ==
  LET loop[s \in MatchStates] ==
        IF s.v > Len(value) THEN \A i \in s.e..Len(expr) : expr[i] = "*"
        ELSE ~Stuck(value, expr, s) /\ loop[LoopTurn(value, expr, s)]
  IN  loop[[v |-> 1, e |-> 1, backV |-> 0, backE |-> 0]]

Stars(expr) == {i \in DOMAIN expr : expr[i] = "*"}
Occurs(t, s) == \E i \in 0..(Len(s) - Len(t)) : SubSeq(s, i + 1, i + Len(t)) = t

\* The special cases of MatchSingle in their order, then the loop.
MatchSingle(value, expr) ==
  LET n == Len(expr) IN
  /\ expr # <<>> /\ value # <<>>
  /\ CASE expr = <<"*">> -> TRUE
       [] Stars(expr) = {} -> value = expr
       [] n > 1 /\ Stars(expr) = {1, n} -> Occurs(SubSeq(expr, 2, n - 1), value)
       [] n > 1 /\ Stars(expr) = {1} -> IsSuffix(Tail(expr), value)
       [] n > 1 /\ Stars(expr) = {n} -> IsPrefix(Front(expr), value)
       [] OTHER -> MatchIterative(value, expr)

\* One mask after those before it; an exclusion that matches ends the loop.
MaskVerdict_first(verdict, value, mask) ==
  IF verdict # "none" \/ mask = <<>> THEN verdict
  ELSE IF Head(mask) = "!"
       THEN IF MatchSingle(value, Tail(mask)) THEN "excluded" ELSE verdict
       ELSE IF MatchSingle(value, mask) THEN "found" ELSE verdict

MaskVerdict(verdict, value, mask) ==
  IF verdict = "excluded" \/ mask = <<>> THEN verdict
  ELSE IF Head(mask) = "!"
       THEN IF MatchSingle(value, Tail(mask)) THEN "excluded" ELSE verdict
       ELSE IF MatchSingle(value, mask) THEN "found" ELSE verdict

Match(value, pattern) ==
  LET verdict[i \in 0..(Len(pattern) + 1)] ==
        IF i = 0 THEN "none"
        ELSE IF i \notin Ends(pattern) THEN verdict[i - 1]
        ELSE MaskVerdict(verdict[i - 1], value, TrimSpaces(TokenTo(pattern, i)))
  IN  pattern # <<>> /\ value # <<>> /\ verdict[Len(pattern) + 1] = "found"

MatchIE(value, pattern) == Match(ToLower(value), ToLower(pattern))

\* strings.Replace(exp, "*", "", -1).
WithoutStars(expr) ==
  LET kept[i \in 0..Len(expr)] ==
        IF i = 0 THEN <<>>
        ELSE IF expr[i] = "*" THEN kept[i - 1] ELSE Append(kept[i - 1], expr[i])
  IN  kept[Len(expr)]

\* One expression of Any: a star counts at the ends only, and all of them go.
AnySingle(value, expr) ==
  LET prefix == expr # <<>> /\ Head(expr) = "*"
      suffix == expr # <<>> /\ Last(expr) = "*"
      text == WithoutStars(expr)
  IN  \/ expr = <<"*">>
      \/ CASE prefix /\ ~suffix -> IsSuffix(text, value)
           [] ~prefix /\ suffix -> IsPrefix(text, value)
           [] prefix /\ suffix -> Occurs(text, value)
           [] OTHER -> value = text

AnyToken_and(value, token) ==
  /\ token # <<>>
  /\ IF Head(token) = "!" THEN AnySingle(value, Tail(token)) ELSE AnySingle(value, token)

AnyToken(value, token) ==
  /\ token # <<>>
  /\ IF Head(token) = "!" THEN ~AnySingle(value, Tail(token)) ELSE AnySingle(value, token)

AnyMatch(value, pattern) == pattern # <<>> /\ \E token \in Tokens(pattern) : AnyToken(value, token)
AnyMatchIE(value, pattern) == AnyMatch(ToLower(value), ToLower(pattern))

-----------------------------------------------------------------------------
NoCallYet == [fn |-> "none", value |-> <<>>, pattern |-> <<>>, result |-> FALSE]

MatchingTypeOK ==
  mxCall \in [fn : {"none", "single", "match", "matchIE", "any", "anyIE"},
              value : Seq(Letters \cup {"A"}),
              pattern : Seq(Letters \cup {"A", "*", "!", ",", " "}), result : BOOLEAN]

MatchingInit == mxCall = NoCallYet

Returns(name, value, pattern, result) ==
  mxCall' = [fn |-> name, value |-> value, pattern |-> pattern, result |-> result]

MatchingNext ==
  /\ mxCall = NoCallYet
  /\ \/ \E value \in Values(MaxValue), expr \in Exprs :
            Returns("single", value, expr, MatchSingle(value, expr))
     \/ \E value \in Values(MaxListed), pattern \in Patterns :
            \/ Returns("match", value, pattern, Match(value, pattern))
            \/ Returns("matchIE", value, pattern, MatchIE(value, pattern))
            \/ Returns("any", value, pattern, AnyMatch(value, pattern))
            \/ Returns("anyIE", value, pattern, AnyMatchIE(value, pattern))

MatchingSpec == MatchingInit /\ [][MatchingNext]_matchVars

-----------------------------------------------------------------------------
\* What a wildcard means: '*' stands for any text, every other character for
\* itself.  starts[j]: from where the rest of the value is a text of expr from j on.
Wildcard(value, expr) ==
  LET places == 1..(Len(value) + 1)
      starts[j \in 1..(Len(expr) + 1)] ==
        IF j > Len(expr) THEN {Len(value) + 1}
        ELSE IF expr[j] = "*" THEN {i \in places : \E k \in starts[j + 1] : i <= k}
        ELSE {i \in 1..Len(value) : value[i] = expr[j] /\ i + 1 \in starts[j + 1]}
  IN  1 \in starts[1]

(***************************************************************************)
(* MatchSingle, by its special cases or by the backtracking loop, decides  *)
(* the plain meaning of the wildcard (utils.go:99-165); nothing matches    *)
(* an empty value or an empty expression.                                  *)
(***************************************************************************)
SingleIsWildcard ==
  mxCall.fn = "single" =>
    (mxCall.result <=> /\ mxCall.value # <<>> /\ mxCall.pattern # <<>>
                       /\ Wildcard(mxCall.value, mxCall.pattern))

Masks(pattern) == {TrimSpaces(token) : token \in Tokens(pattern)} \ {<<>>}
Excludes(mask) == Head(mask) = "!"

(***************************************************************************)
(* A list matches when some mask does and no excluding mask does, in       *)
(* whatever order the masks come (utils.go:51-96).  The spaces around a    *)
(* mask do not count; one inside it does.                                  *)
(***************************************************************************)
MatchIsMaskList ==
  mxCall.fn = "match" =>
    (mxCall.result <=>
       /\ mxCall.value # <<>>
       /\ \E mask \in Masks(mxCall.pattern) : ~Excludes(mask) /\ Wildcard(mxCall.value, mask)
       /\ ~\E mask \in Masks(mxCall.pattern) :
             Excludes(mask) /\ Tail(mask) # <<>> /\ Wildcard(mxCall.value, Tail(mask)))

InnerStar(s) == \E i \in 2..(Len(s) - 1) : s[i] = "*"
Plain(token) == IF token # <<>> /\ Head(token) = "!" THEN Tail(token) ELSE token

(***************************************************************************)
(* Any takes its list as a disjunction, an excluding expression for the    *)
(* complement of its texts (utils.go:174-216).  An expression with a star  *)
(* between its ends is left out: Any drops that star.                      *)
(***************************************************************************)
AnyIsDisjunction ==
  (mxCall.fn = "any" /\ \A token \in Tokens(mxCall.pattern) : ~InnerStar(Plain(token))) =>
    (mxCall.result <=>
       \E token \in Tokens(mxCall.pattern) :
         token # <<>> /\ (Head(token) = "!" <=> ~Wildcard(mxCall.value, Plain(token))))
=============================================================================
