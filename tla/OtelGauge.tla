------------------------------ MODULE OtelGauge -----------------------------
(***************************************************************************)
(* metric.otelGauge (src/metric/otel_gauge.go): a gauge made of an         *)
(* OpenTelemetry up-down counter, which only adds.  The current value of   *)
(* each label set is kept in a sync.Map that every gauge made by With      *)
(* shares; Set and Add load it, compare-and-swap it, and send the          *)
(* difference to the counter.  sync.Map.CompareAndSwap is external: it     *)
(* changes the value of a key that is present and equal to the old one,    *)
(* and returns false for a key that is absent.                             *)
(***************************************************************************)
EXTENDS Integers

CONSTANTS
  Goroutines,   \* callers of the gauge
  LabelSets,    \* the keys makeAttrKey makes
  Amounts       \* arguments of Set and Add

VARIABLES
  values,    \* the sync.Map: a function whose domain is the keys present
  call,      \* call[g]: what g is doing: kind, key, argument, loaded, step
  exported   \* exported[k]: the sum of the deltas sent for k

otelVars == <<values, call, exported>>

NoValue == "no value"
Idle == [kind |-> "none", key |-> NoValue, arg |-> 0, old |-> NoValue, step |-> "idle"]

OtelInit ==
  /\ values = [k \in {} |-> 0]
  /\ call = [g \in Goroutines |-> Idle]
  /\ exported = [k \in LabelSets |-> 0]

Loaded(k) == IF k \in DOMAIN values THEN values[k] ELSE NoValue

\* Set(v), Add(v) and Sub(-v) on the gauge of label set k.
Begin(g) ==
  /\ call[g].step = "idle"
  /\ \E kind \in {"set", "add"}, k \in LabelSets, v \in Amounts :
       call' = [call EXCEPT ![g] =
                  [kind |-> kind, key |-> k, arg |-> v, old |-> NoValue, step |-> "load"]]
  /\ UNCHANGED <<values, exported>>

LoadOld(g) ==
  /\ call[g].step = "load"
  /\ call' = [call EXCEPT ![g].old = Loaded(call[g].key), ![g].step = "swap"]
  /\ UNCHANGED <<values, exported>>

NewValue(c) == IF c.kind = "set" \/ c.old = NoValue THEN c.arg ELSE c.old + c.arg
Delta(c) == IF c.kind = "set" /\ c.old # NoValue THEN c.arg - c.old ELSE c.arg

CanSwap(k, old) == k \in DOMAIN values /\ values[k] = old

SwapNew(g) ==
  LET c == call[g] IN
  /\ c.step = "swap"
  /\ IF CanSwap(c.key, c.old)
     THEN /\ values' = [values EXCEPT ![c.key] = NewValue(c)]
          /\ call' = [call EXCEPT ![g].step = "send"]
     ELSE /\ call' = [call EXCEPT ![g].step = "load"]
          /\ UNCHANGED values
  /\ UNCHANGED exported

SendDelta(g) ==
  /\ call[g].step = "send"
  /\ exported' = [exported EXCEPT ![call[g].key] = @ + Delta(call[g])]
  /\ call' = [call EXCEPT ![g] = Idle]
  /\ UNCHANGED values

DeleteKey(k) ==
  /\ values' = [j \in DOMAIN values \ {k} |-> values[j]]
  /\ UNCHANGED <<call, exported>>

Step(g) == LoadOld(g) \/ SwapNew(g) \/ SendDelta(g)

OtelNext == (\E g \in Goroutines : Begin(g) \/ Step(g)) \/ (\E k \in LabelSets : DeleteKey(k))

OtelSpec == OtelInit /\ [][OtelNext]_otelVars /\ \A g \in Goroutines : WF_otelVars(Step(g))

(***************************************************************************)
(* Liveness: a Set returns.  The test (otel_gauge_test.go:12-18) sets a    *)
(* new label set to 100 and then reads the stored value, and the comment   *)
(* at otel_gauge.go:97 names the "first set".                              *)
(***************************************************************************)
SetReturns == \A g \in Goroutines :
  call[g].kind = "set" ~> call[g].step = "idle"
=============================================================================
