----------------------------- MODULE SqlFilter -----------------------------
(***************************************************************************)
(* ArgsFilter of sql/sql.go turns the keys a request carries into the      *)
(* conditions of a query: the maps ex (all of) and exOr (any of) hold one  *)
(* condition for each field, the list exps (all of) the caller's own.      *)
(* goqu is external: an expression is what it means for a row.             *)
(***************************************************************************)
EXTENDS Integers, Sequences

CONSTANTS Fields,          \* columns a filter may name
          ConditionKeys,            \* keys a request may carry
          MaxFilterCalls   \* bounds the calls of one filter

ASSUME SqlFilterAssumption == MaxFilterCalls \in Nat

VARIABLES flRequest,  \* the Condition map: key -> value or Absent
          flEx, flOr, \* the maps ex and exOr: field -> condition or None
          flExps,     \* the list exps
          flCalls     \* every call made, for the properties
filterVars == <<flRequest, flEx, flOr, flExps, flCalls>>

Scalar(n) == [kind |-> "scalar", items |-> <<n>>]
Slice(s) == [kind |-> "slice", items |-> s]
Null == [kind |-> "nil", items |-> <<>>]
Absent == [kind |-> "absent", items |-> <<>>]
Conditions == {Scalar(1), Slice(<<0, 1>>), Slice(<<2>>), Null}
None == [op |-> "none", value |-> Absent]
QueryOps == {"eq", "neq", "gt", "between", "notBetween", "in", "like"}

\* execOp: an operator whose value does not fit gives no condition.
ExecOp_anyLength(op, value) ==
  IF op \in {"between", "notBetween", "in"} /\ value.kind # "slice" THEN None
  ELSE [op |-> op, value |-> value]

ExecOp(op, value) ==
  IF \/ op \in {"between", "notBetween"} /\ (value.kind # "slice" \/ Len(value.items) # 2)
     \/ op = "in" /\ (value.kind # "slice" \/ value.items = <<>>)
  THEN None ELSE [op |-> op, value |-> value]

\* What goqu makes of a condition, for a row whose field is x.  The instance has
\* no NULL columns and one-digit texts; a slice under eq means one of it, and a
\* range of the wrong length has no meaning goqu would accept.
Meets(x, cond) ==
  LET items == {cond.value.items[i] : i \in DOMAIN cond.value.items}
      between == /\ Len(cond.value.items) = 2
                 /\ cond.value.items[1] <= x /\ x <= cond.value.items[2]
  IN  CASE cond.op \in {"eq", "in", "like"} -> x \in items
        [] cond.op = "neq" -> x \notin items
        [] cond.op = "gt" -> \A n \in items : x > n
        [] cond.op = "between" -> between
        [] cond.op = "notBetween" -> ~between

Present(key) == flRequest[key] # Absent
LogCall(kind, field, op, key) ==
  /\ Len(flCalls) < MaxFilterCalls
  /\ flCalls' = Append(flCalls, [kind |-> kind, field |-> field, op |-> op, key |-> key])
  /\ UNCHANGED flRequest

Where(field, op, key) ==
  /\ LogCall("where", field, op, key)
  /\ IF Present(key) /\ ExecOp(op, flRequest[key]) # None
     THEN flEx' = [flEx EXCEPT ![field] = ExecOp(op, flRequest[key])]
     ELSE UNCHANGED flEx
  /\ UNCHANGED <<flOr, flExps>>

Or(field, op, key) ==
  /\ LogCall("or", field, op, key)
  /\ IF Present(key) /\ ExecOp(op, flRequest[key]) # None
     THEN flOr' = [flOr EXCEPT ![field] = ExecOp(op, flRequest[key])]
     ELSE UNCHANGED flOr
  /\ UNCHANGED <<flEx, flExps>>

\* With's function is the caller's: here it makes "neq" of the value.
With(field, key) ==
  /\ LogCall("with", field, "neq", key)
  /\ IF Present(key)
     THEN flExps' = Append(flExps, [field |-> field, cond |-> [op |-> "neq", value |-> flRequest[key]]])
     ELSE UNCHANGED flExps
  /\ UNCHANGED <<flEx, flOr>>

Update(field, key) ==
  /\ LogCall("update", field, "eq", key)
  /\ flEx' = IF Present(key) THEN [flEx EXCEPT ![field] = [op |-> "eq", value |-> flRequest[key]]] ELSE flEx
  /\ UNCHANGED <<flOr, flExps>>

\* End: one expression of all of ex, those of exps, one of any of exOr.
EndExpressions_all(row) ==
  /\ \A f \in Fields : flEx[f] # None => Meets(row[f], flEx[f])
  /\ \A i \in DOMAIN flExps : Meets(row[flExps[i].field], flExps[i].cond)
  /\ \A f \in Fields : flOr[f] # None => Meets(row[f], flOr[f])
EndExpressions(row) ==
  /\ \A f \in Fields : flEx[f] # None => Meets(row[f], flEx[f])
  /\ \A i \in DOMAIN flExps : Meets(row[flExps[i].field], flExps[i].cond)
  /\ (\E f \in Fields : flOr[f] # None) => \E f \in Fields : flOr[f] # None /\ Meets(row[f], flOr[f])

-----------------------------------------------------------------------------
SqlFilterTypeOK ==
  /\ flRequest \in [ConditionKeys -> Conditions \cup {Absent}]
  /\ flEx \in [Fields -> [op : QueryOps \cup {"none"}, value : Conditions \cup {Absent}]]
  /\ flOr \in [Fields -> [op : QueryOps \cup {"none"}, value : Conditions \cup {Absent}]]
  /\ Len(flExps) <= Len(flCalls) /\ Len(flCalls) <= MaxFilterCalls

SqlFilterInit ==
  /\ flRequest \in [ConditionKeys -> Conditions \cup {Absent}]
  /\ flEx = [f \in Fields |-> None] /\ flOr = [f \in Fields |-> None]
  /\ flExps = <<>> /\ flCalls = <<>>

SqlFilterNext == \E field \in Fields, key \in ConditionKeys :
  \/ With(field, key) \/ Update(field, key)
  \/ \E op \in QueryOps : Where(field, op, key) \/ Or(field, op, key)

SqlFilterSpec == SqlFilterInit /\ [][SqlFilterNext]_filterVars

-----------------------------------------------------------------------------
\* The condition a call asked for, None when its key is absent or does not fit.
FilterAsked(call) == IF ~Present(call.key) THEN None
               ELSE IF call.kind \in {"with", "update"}
                    THEN [op |-> call.op, value |-> flRequest[call.key]]
                    ELSE ExecOp(call.op, flRequest[call.key])
Overwrites == \E i, j \in DOMAIN flCalls :
  i < j /\ flCalls[i].field = flCalls[j].field /\ flCalls[i].kind # "with" /\ flCalls[j].kind # "with"
    /\ (flCalls[i].kind = "or" <=> flCalls[j].kind = "or")

(***************************************************************************)
(* When no field is named twice, the filter selects the rows that satisfy  *)
(* every Where, With and Update whose key the request carries with a value *)
(* that fits, and some such Or if there is one (sql.go:54-171).  A field   *)
(* named twice keeps its last condition only.                              *)
(***************************************************************************)
FilterMeansItsCalls == ~Overwrites =>
  \A row \in [Fields -> 0..2] :
    LET met == {i \in DOMAIN flCalls : FilterAsked(flCalls[i]) # None
                                        /\ Meets(row[flCalls[i].field], FilterAsked(flCalls[i]))}
        asked == {i \in DOMAIN flCalls : FilterAsked(flCalls[i]) # None}
        ors == {i \in asked : flCalls[i].kind = "or"}
    IN  EndExpressions(row) <=> (asked \ ors) \subseteq met /\ (ors = {} \/ ors \cap met # {})
=============================================================================
