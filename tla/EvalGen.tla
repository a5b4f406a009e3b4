------------------------------ MODULE EvalGen -------------------------------
(***************************************************************************)
(* Expressions of eval/eval.go: Gen and GenMatcherWithFuncs accept one     *)
(* after evaluating it on a test value, and it is later evaluated on other *)
(* values.  An expression is one call of a library function or two joined  *)
(* by ||, which govaluate (external) evaluates from the left and stops at  *)
(* the first that is true.  An argument is a variable or a literal; a      *)
(* value has a type, and "missing" is what an unknown variable gives.      *)
(***************************************************************************)
EXTENDS Matching

VARIABLES evExpr,     \* the expression generated, <<>> before
          evTested,   \* was a test value given?
          evDefaults, \* were the library's functions given?
          evResult    \* what Gen or the last Evaluate returned
evalVars == <<evExpr, evTested, evDefaults, evResult>>

Str(s) == [type |-> "string", val |-> s]
Num(n) == [type |-> "number", val |-> <<n>>]
Missing == [type |-> "missing", val |-> <<>>]

\* The test type has a string field s and a number field n; x is not a field.
Context(s, n) == [s |-> Str(s), n |-> Num(n), x |-> Missing]
Texts == {<<"a">>, <<"b", ",", "a">>}
Contexts == {Context(s, n) : s \in Texts, n \in {1, 2}}
Literals == {Str(<<"a", "*">>), Num(1)}
Args == {[var |-> v, lit |-> Missing] : v \in {"s", "n", "x"}}
          \cup {[var |-> "none", lit |-> l] : l \in Literals}

Signature == [match |-> <<"string", "string">>, matchMulti |-> <<"string", "string">>,
              matchIE |-> <<"string", "string">>, any |-> <<"string", "string">>,
              anyMulti |-> <<"string", "string">>, anyIE |-> <<"string", "string">>,
              range |-> <<"string", "string", "string">>]

Funcs == DOMAIN Signature \cup {"in"}
CallOf(f, args) == <<f>> \o args
Calls == {CallOf(f, args) : f \in Funcs, args \in [1..2 -> Args]}
           \cup {CallOf("range", args) : args \in [1..3 -> {a \in Args : a.var # "n"}]}
           \cup {CallOf("in", args) : args \in [1..3 -> {a \in Args : a.var # "x"}]}
Expressions == {<<c>> : c \in Calls}
  \cup {<<c, d>> : c, d \in {e \in Calls : Head(e) \in {"match", "in"} /\ Len(e) = 3}}

\* Strings compare byte by byte; the instance orders '*' before the letters.
Before(ch, other) == ch # other /\ (ch \in {"*", ","} \/ (ch = "a" /\ other = "b"))
Less(s, t) ==
  \/ s # t /\ IsPrefix(s, t)
  \/ \E i \in DOMAIN s \cap DOMAIN t :
       SubSeq(s, 1, i - 1) = SubSeq(t, 1, i - 1) /\ Before(s[i], t[i])

\* The functions with a fixed list of types check them all before the call.
TypedCall(f, args) ==
  IF [i \in DOMAIN args |-> args[i].type] # Signature[f] THEN "error"
  ELSE LET v == args[1].val  p == args[2].val IN
       IF CASE f = "match" -> Match(v, p)
            [] f = "matchIE" -> MatchIE(v, p)
            [] f = "matchMulti" -> \E token \in Tokens(v) : Match(token, p)
            [] f = "any" -> AnyMatch(v, p)
            [] f = "anyIE" -> AnyMatchIE(v, p)
            [] f = "anyMulti" -> \E token \in Tokens(v) : AnyMatch(token, p)
            [] f = "range" -> ~Less(v, p) /\ Less(v, args[3].val)
       THEN "true" ELSE "false"

\* in looks at its arguments one by one: a member found first hides what follows.
InFunc(args) ==
  LET bad == {i \in DOMAIN args : args[i].type # "number"}
      hit == {i \in DOMAIN args : i > 1 /\ args[i] = args[1]}
  IN  IF bad # {} /\ (hit = {} \/ Min(bad) < Min(hit)) THEN "error"
      ELSE IF hit # {} THEN "true" ELSE "false"

ArgValue(arg, ctx) == IF arg.var = "none" THEN arg.lit ELSE ctx[arg.var]

\* A variable the context lacks is an error of its own, before the call.
EvalCall(call, ctx) ==
  LET args == [i \in 1..(Len(call) - 1) |-> ArgValue(call[i + 1], ctx)]
  IN  IF \E i \in DOMAIN args : args[i] = Missing THEN "missing"
      ELSE IF Head(call) = "in" THEN InFunc(args) ELSE TypedCall(Head(call), args)

EvalExpr(expr, ctx) ==
  LET first == EvalCall(Head(expr), ctx)
  IN  IF Len(expr) = 2 /\ first = "false" THEN EvalCall(expr[2], ctx) ELSE first

VarsOf(expr) == (UNION {{expr[k][i].var : i \in 2..Len(expr[k])} : k \in DOMAIN expr}) \ {"none"}

\* What Gen answers: the error of the test, then that of an unknown variable.
TestOutcome_evaluateOnly(expr, ctx) == EvalExpr(expr, ctx)
TestOutcome(expr, ctx) ==
  LET result == EvalExpr(expr, ctx)
  IN  IF result \in {"true", "false"} /\ \E v \in VarsOf(expr) : ctx[v] = Missing
      THEN "missing" ELSE result

-----------------------------------------------------------------------------
EvalTypeOK ==
  /\ evExpr \in Expressions \cup {<<>>} /\ evTested \in BOOLEAN /\ evDefaults \in BOOLEAN
  /\ evResult \in {"none", "accepted", "true", "false", "error", "missing", "parse"}

EvalInit == evExpr = <<>> /\ evTested = FALSE /\ evDefaults = FALSE /\ evResult = "none"

\* Gen with or without WithTest; GenMatcherWithFuncs always tests and always has
\* the library's functions.  Without them the parser knows no function.
Gen(expr, ctx, tested, defaults) ==
  /\ evResult = "none"
  /\ evTested' = tested /\ evDefaults' = defaults
  /\ LET outcome == IF tested THEN TestOutcome(expr, ctx) ELSE "true" IN
     IF ~defaults THEN evResult' = "parse" /\ UNCHANGED evExpr
     ELSE IF outcome \in {"true", "false"} THEN evResult' = "accepted" /\ evExpr' = expr
          ELSE evResult' = outcome /\ UNCHANGED evExpr

\* A later evaluation on a value of the type that was tested.
Evaluate(ctx) ==
  /\ evExpr # <<>> /\ evResult = "accepted"
  /\ evResult' = EvalExpr(evExpr, ctx)
  /\ UNCHANGED <<evExpr, evTested, evDefaults>>

TheTest == CHOOSE ctx \in Contexts : ctx.s = Str(<<"a">>) /\ ctx.n = Num(1)

EvalNext ==
  \/ \E expr \in Expressions, tested, defaults \in BOOLEAN : Gen(expr, TheTest, tested, defaults)
  \/ \E ctx \in Contexts : Evaluate(ctx)

EvalSpec == EvalInit /\ [][EvalNext]_evalVars

(***************************************************************************)
(* An expression accepted after a test never misses a parameter later,     *)
(* though the test may have stopped before the call that uses it: Gen      *)
(* looks at every variable of the expression (eval.go:79-86).  Its types   *)
(* may still be wrong in a call the test did not reach.                    *)
(***************************************************************************)
AcceptedKnowsVariables == (evTested /\ evExpr # <<>>) => evResult # "missing"

(***************************************************************************)
(* MatchSingle, Match and Any decide the plain meaning of their patterns   *)
(* (the IE functions fold case and call these two), and an expression that *)
(* was accepted after a test knows its variables (utils.go, eval.go).      *)
(***************************************************************************)
ExpressionsCorrect == SingleIsWildcard /\ MatchIsMaskList /\ AnyIsDisjunction /\ AcceptedKnowsVariables
=============================================================================
