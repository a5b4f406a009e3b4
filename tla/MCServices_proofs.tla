------------------------- MODULE MCServices_proofs --------------------------
(***************************************************************************)
(* Proofs about the clients and libraries side by side, as MCServices puts *)
(* them: a step of the whole is a step of each component or leaves it      *)
(* alone, so what holds of each by itself holds of the whole, and every    *)
(* variable has its type.  The inductive invariants of the components say  *)
(* nothing of the counters and flags their properties do not need; for     *)
(* each the types of these are an invariant of its own.                    *)
(***************************************************************************)
EXTENDS MCServices, Services_proofs, Library_proofs, Matching_proofs

-----------------------------------------------------------------------------
(* RedisPool. *)

PoolCounts ==
  /\ rpReady \in {"nil", "made", "ready", "failed"}
  /\ rpSub \in {"none", "waits", "holds", "broken"}
  /\ rpLeaked \in 0..MaxActive /\ rpOps \in 0..MaxOps
  /\ \A c \in Clients : rpCall[c].key \in Keys \cup {1}

LEMMA PoolTypes == PoolIInv /\ PoolCounts => PoolTypeOK
<1> SUFFICES ASSUME PoolIInv, PoolCounts PROVE PoolTypeOK
  OBVIOUS
<1>1. \A c \in Clients : rpCall[c] \in PoolCalls /\ rpSince[c] \subseteq Keys
  BY DEF PoolIInv
<1>2. ASSUME NEW c \in Clients
      PROVE  rpCall[c] \in [op : Ops \cup {"none", "failed"}, key : Keys \cup {1},
                            step : {"idle", "wait", "do", "exec"}, iter : 0..KeyCount, keys : SUBSET Keys]
  <2>1. rpCall[c] \in PoolCalls /\ rpCall[c].key \in Keys \cup {1}
    BY <1>1 DEF PoolCounts
  <2>2. QED
    BY <2>1 DEF PoolCalls
<1>3. QED
  BY <1>1, <1>2 DEF PoolIInv, PoolCounts, PoolTypeOK

LEMMA PoolCountsInit == PoolInit => PoolCounts
BY PoolAssumption DEF PoolInit, PoolCounts, NoCall

\* A connection Init keeps was free, so no more are kept than there are.
LEMMA LeakedBounded ==
  ASSUME PoolCounts, InUse < MaxActive
  PROVE  rpLeaked + 1 \in 0..MaxActive
<1>1. Cardinality(Commanding) \in Nat
  BY ClientsAssumption, FS_Subset, FS_CardinalityType DEF Commanding
<1>2. PICK sub \in {0, 1} : InUse = rpLeaked + sub + Cardinality(Commanding)
  BY DEF InUse
<1>3. QED
  BY <1>1, <1>2, PoolAssumption DEF PoolCounts

LEMMA PoolCountsKept == PoolIInv /\ PoolCounts /\ [PoolNext]_poolVars => PoolCounts'
<1> SUFFICES ASSUME PoolIInv, PoolCounts, [PoolNext]_poolVars PROVE PoolCounts'
  OBVIOUS
<1> USE PoolAssumption
<1>1. CASE UNCHANGED poolVars
  BY <1>1 DEF PoolCounts, poolVars
<1>2. CASE InitPool
  BY <1>2 DEF InitPool, PoolCounts
<1>3. CASE ScriptFails \/ InitEnds \/ SubGets \/ SubReconnects
  BY <1>3, LeakedBounded DEF ScriptFails, InitEnds, SubGets, SubReconnects, PoolCounts
<1>4. ASSUME NEW c \in Clients, NEW call \in PoolCalls, call.key \in Keys \cup {1},
             rpCall' = [rpCall EXCEPT ![c] = call], UNCHANGED <<rpReady, rpLeaked, rpSub>>,
             rpOps' \in 0..MaxOps
      PROVE  PoolCounts'
  <2>1. \A d \in Clients : rpCall'[d] = IF d = c THEN call ELSE rpCall[d]
    BY <1>4 DEF PoolIInv
  <2>2. QED
    BY <1>4, <2>1 DEF PoolCounts
<1>5. ASSUME NEW c \in Clients, NEW op \in Ops, NEW key \in Keys, Call(c, op, key) PROVE PoolCounts'
  <2>0. NoCall \in PoolCalls /\ key \in Nat
    BY DEF NoCall, PoolCalls, Keys
  <2>1. PICK call : call = [NoCall EXCEPT !.op = op, !.key = key, !.step = "wait"]
    OBVIOUS
  <2>2. call \in PoolCalls /\ call.key = key
    BY <2>0, <2>1 DEF PoolCalls
  <2>3. rpOps' \in 0..MaxOps
    BY <1>5 DEF Call, PoolCounts
  <2>4. QED
    BY <1>4, <1>5, <2>1, <2>2, <2>3 DEF Call
<1>6. ASSUME NEW c \in Clients, NEW result \in {"none", "failed"}, Return(c, result),
             UNCHANGED <<rpReady, rpSub, rpOps>>
      PROVE  PoolCounts'
  <2>1. PICK call : call = [NoCall EXCEPT !.op = result]
    OBVIOUS
  <2>2. call \in PoolCalls /\ call.key = 1
    BY <2>1 DEF NoCall, PoolCalls, Keys
  <2>3. rpOps' \in 0..MaxOps
    BY <1>6 DEF PoolCounts
  <2>4. rpCall' = [rpCall EXCEPT ![c] = call] /\ UNCHANGED rpLeaked
    BY <1>6, <2>1 DEF Return, Closes
  <2>5. QED
    BY <1>4, <1>6, <2>2, <2>3, <2>4
<1>7. ASSUME NEW c \in Clients, GetConn(c) \/ ScanBatch(c) PROVE PoolCounts'
  <2>1. /\ UNCHANGED <<rpReady, rpLeaked, rpSub, rpOps>>
        /\ \A d \in Clients : rpCall'[d].key = rpCall[d].key
    <3>1. CASE GetConn(c)
      BY <3>1 DEF GetConn, PoolIInv, PoolCalls
    <3>2. CASE ScanBatch(c)
      <4>1. PICK next :
              rpCall' = [rpCall EXCEPT
                ![c].iter = IF next = KeyCount THEN 0 ELSE next,
                ![c].keys = Found(@, {k \in rpStore : rpCall[c].iter < k /\ k <= next}),
                ![c].step = IF next = KeyCount THEN "exec" ELSE "do"]
        BY <3>2 DEF ScanBatch
      <4>2. PICK i, k, s : /\ i = IF next = KeyCount THEN 0 ELSE next
                           /\ k = Found(rpCall[c].keys, {x \in rpStore : rpCall[c].iter < x /\ x <= next})
                           /\ s = IF next = KeyCount THEN "exec" ELSE "do"
        OBVIOUS
      <4>3. PICK call : call = [rpCall[c] EXCEPT !.iter = i, !.keys = k, !.step = s]
        OBVIOUS
      <4>4. rpCall' = [rpCall EXCEPT ![c] = call]
        BY <4>1, <4>2, <4>3
      <4>5. call.key = rpCall[c].key
        BY <4>3 DEF PoolIInv, PoolCalls
      <4>6. QED
        BY <3>2, <4>4, <4>5 DEF ScanBatch, PoolIInv
    <3>3. QED
      BY <1>7, <3>1, <3>2
  <2>2. QED
    BY <2>1 DEF PoolCounts
<1>8. ASSUME NEW c \in Clients, CallStep(c) PROVE PoolCounts'
  BY <1>6, <1>7, <1>8 DEF CallStep, Command, ExecKeys, ScanFails
<1>9. QED
  BY <1>1, <1>2, <1>3, <1>5, <1>8 DEF PoolNext

-----------------------------------------------------------------------------
(* MetricCollector. *)

MetricGlobals ==
  /\ mtConfig \in [mode : Modes, stats : BOOLEAN, endpoint : BOOLEAN]
  /\ mtExporter \in [kind : Modes \cup {"nil"}, init : BOOLEAN]
  /\ mtGauge \in {"nil", "otel", "prometheus"} /\ mtTick \in [Collectors -> BOOLEAN]
  /\ mtExported \in [Collectors -> SUBSET Families] /\ mtFailed \in [Collectors -> BOOLEAN]
  /\ mtPanic \in BOOLEAN

LEMMA MetricTypes == MetricIInv /\ MetricGlobals => MetricTypeOK
BY DEF MetricIInv, MetricGlobals, MetricTypeOK

LEMMA MetricGlobalsInit == MetricInit => MetricGlobals
<1>1. \A m \in {"otel", "nil"} : m \in Modes \cup {"nil"}
  BY DEF Modes
<1>2. [mode |-> "otel", stats |-> FALSE, endpoint |-> FALSE] \in [mode : Modes, stats : BOOLEAN, endpoint : BOOLEAN]
  BY DEF Modes
<1>3. [kind |-> "nil", init |-> FALSE] \in [kind : Modes \cup {"nil"}, init : BOOLEAN]
  OBVIOUS
<1>4. [c \in Collectors |-> FALSE] \in [Collectors -> BOOLEAN]
  OBVIOUS
<1>5. [c \in Collectors |-> {}] \in [Collectors -> SUBSET Families]
  OBVIOUS
<1>6. QED
  BY <1>2, <1>3, <1>4, <1>5 DEF MetricInit, MetricGlobals

LEMMA MetricGlobalsStart == MetricGlobals /\ Start => MetricGlobals'
<1> SUFFICES ASSUME MetricGlobals, Start PROVE MetricGlobals'
  OBVIOUS
<1>1. CASE Dies
  BY <1>1 DEF Dies, MetricGlobals, Modes
<1>2. CASE ~Dies
  <2> DEFINE Sets(cfg, g) == /\ mtConfig' = cfg /\ mtExporter' = g[1]
                             /\ mtGauge' = mtGauge \/ mtGauge' = StatsGauge(cfg)
                             /\ UNCHANGED <<mtTick, mtExported, mtFailed, mtPanic>>
  <2>1. PICK cfg \in Configs, logger \in BOOLEAN : \E g \in Globals(cfg, logger) : Sets(cfg, g)
    BY <1>2 DEF Start
  <2>2. PICK g \in Globals(cfg, logger) : Sets(cfg, g)
    BY <2>1
  <2>3. cfg \in [mode : Modes, stats : BOOLEAN, endpoint : BOOLEAN]
    BY DEF Configs, MetricGlobals
  <2>4. StatsGauge(cfg) \in {"nil", "otel", "prometheus"}
    BY DEF StatsGauge, MetricGlobals
  <2>5. g[1] \in [kind : Modes \cup {"nil"}, init : BOOLEAN]
    <3>1. CASE logger /\ cfg.mode # "other"
      <4>1. g[1] \in NewExporters(cfg)
        BY <3>1 DEF Globals
      <4>2. cfg.mode \in {"log", "openobserve", "otel"} /\ cfg.endpoint \in BOOLEAN
        BY <2>3, <3>1 DEF Modes
      <4>3. PICK E : E = [kind : Modes \cup {"nil"}, init : BOOLEAN]
        OBVIOUS
      <4>4. \A kind \in {"log", "openobserve", "otel"}, init \in BOOLEAN :
              [kind |-> kind, init |-> init] \in E
        BY <4>3 DEF Modes
      <4>5. \/ g[1] = [kind |-> "log", init |-> TRUE]
            \/ g[1] = [kind |-> "openobserve", init |-> cfg.endpoint]
            \/ \E ok \in BOOLEAN : g[1] = [kind |-> "otel", init |-> ok]
        BY <4>1, <4>2, Zenon
           DEF NewExporters, NewJSONLoggerExporter, NewOpenobserveExporter, NewOTELExporter
      <4>6. g[1] \in E
        BY <4>2, <4>4, <4>5, Zenon
      <4>7. QED
        BY <4>3, <4>6
    <3>2. CASE ~(logger /\ cfg.mode # "other")
      BY <3>2 DEF Globals, MetricGlobals
    <3>3. QED
      BY <3>1, <3>2
  <2>6. QED
    BY <2>2, <2>3, <2>4, <2>5 DEF MetricGlobals
<1>3. QED
  BY <1>1, <1>2

LEMMA MetricGlobalsKept == MetricIInv /\ MetricGlobals /\ [MetricNext]_metricVars => MetricGlobals'
<1> SUFFICES ASSUME MetricIInv, MetricGlobals, [MetricNext]_metricVars PROVE MetricGlobals'
  OBVIOUS
<1>1. CASE UNCHANGED metricVars
  BY <1>1 DEF MetricGlobals, metricVars, globalVars, loopVars
<1>2. CASE Start
  BY <1>2, MetricGlobalsStart
<1>3. CASE Dies
  BY <1>3 DEF Dies, MetricGlobals, Modes
<1>4. ASSUME UNCHANGED <<mtConfig, mtExporter, mtGauge, mtPanic, mtExported, mtFailed>>,
             \/ UNCHANGED mtTick
             \/ \E c, b : b \in BOOLEAN /\ mtTick' = [mtTick EXCEPT ![c] = b]
      PROVE  MetricGlobals'
  BY <1>4 DEF MetricGlobals
<1>5. ASSUME NEW name \in MetricNames, NewMetric(name) \/ \E r \in Collectors : UseMetric(r, name)
      PROVE  MetricGlobals'
  BY <1>3, <1>4, <1>5 DEF NewMetric, UseMetric, loopVars
<1>6. ASSUME NEW c \in Collectors, TickerFires(c) \/ LoopEnds(c) \/ CallStop(c) \/ StopReturn(c)
      PROVE  MetricGlobals'
  BY <1>3, <1>4, <1>6 DEF TickerFires, LoopEnds, CallStop, StopReturn, globalVars, loopVars
<1>7. ASSUME NEW c \in Collectors,
             UNCHANGED <<mtConfig, mtExporter, mtGauge, mtPanic>>,
             \/ UNCHANGED mtTick \/ mtTick' = [mtTick EXCEPT ![c] = FALSE],
             \/ UNCHANGED mtExported
             \/ \E exported \in SUBSET Families : mtExported' = [mtExported EXCEPT ![c] = exported],
             \E failed \in BOOLEAN : mtFailed' = [mtFailed EXCEPT ![c] = failed]
      PROVE  MetricGlobals'
  <2>1. mtTick' \in [Collectors -> BOOLEAN] /\ mtFailed' \in [Collectors -> BOOLEAN]
    BY <1>7 DEF MetricGlobals
  <2>2. mtExported' \in [Collectors -> SUBSET Families]
    BY <1>7 DEF MetricGlobals
  <2>3. QED
    BY <1>7, <2>1, <2>2 DEF MetricGlobals
<1>8. ASSUME NEW c \in Collectors, NEW gathered \in BOOLEAN, TakeTick(c, gathered) PROVE MetricGlobals'
  <2>1. CASE ~Dies
    <3>1. /\ UNCHANGED <<mtConfig, mtExporter, mtGauge, mtPanic, mtExported>>
          /\ mtTick' = [mtTick EXCEPT ![c] = FALSE]
          /\ \E failed \in BOOLEAN : mtFailed' = [mtFailed EXCEPT ![c] = failed]
      BY <1>8, <2>1 DEF TakeTick, globalVars
    <3>2. QED
      BY <1>7, <3>1
  <2>2. QED
    BY <1>3, <2>1
<1>9. ASSUME NEW c \in Collectors, NEW f \in Families, NEW sent \in BOOLEAN, ExportFamily(c, f, sent)
      PROVE  MetricGlobals'
  <2>1. UNCHANGED <<mtConfig, mtExporter, mtGauge, mtPanic, mtTick>>
    BY <1>9 DEF ExportFamily, globalVars
  <2>2. \E failed \in BOOLEAN : mtFailed' = [mtFailed EXCEPT ![c] = failed]
    BY <1>9 DEF ExportFamily, MetricGlobals
  <2>3. \/ UNCHANGED mtExported
        \/ \E exported \in SUBSET Families : mtExported' = [mtExported EXCEPT ![c] = exported]
    <3>1. mtExported[c] \cup {f} \in SUBSET Families
      BY DEF MetricGlobals
    <3>2. \/ UNCHANGED mtExported
          \/ mtExported' = [mtExported EXCEPT ![c] = mtExported[c] \cup {f}]
      BY <1>9 DEF ExportFamily
    <3>3. QED
      BY <3>1, <3>2
  <2>4. QED
    BY <1>7, <2>1, <2>2, <2>3
<1>10. ASSUME NEW c \in Collectors, EndRound(c) PROVE MetricGlobals'
  <2>1. /\ UNCHANGED <<mtConfig, mtExporter, mtGauge, mtPanic, mtTick>>
        /\ mtExported' = [mtExported EXCEPT ![c] = {}] /\ mtFailed' = [mtFailed EXCEPT ![c] = FALSE]
    BY <1>10 DEF EndRound, globalVars
  <2>2. {} \in SUBSET Families
    OBVIOUS
  <2>3. QED
    BY <1>7, <2>1, <2>2
<1>11. QED
  BY <1>1, <1>2, <1>5, <1>6, <1>8, <1>9, <1>10 DEF MetricNext, LoopStep

-----------------------------------------------------------------------------
(* K8sProbe. *)

LEMMA ProbeTypesOK == ProbeIInv => K8sProbeTypeOK
<1> SUFFICES ASSUME ProbeIInv PROVE K8sProbeTypeOK
  OBVIOUS
<1>1. \A r \in ProbeRequests : k8Request[r] \in ProbeRequest
  BY DEF ProbeIInv
<1>2. QED
  BY <1>1 DEF ProbeIInv, K8sProbeTypeOK, ProbeRequest

-----------------------------------------------------------------------------
(* ErrorPool. *)

Words == -HalfWord..(HalfWord - 1)

ErrorRanges ==
  /\ \A i \in 1..Len(erMade) : erMade[i] \in Words
  /\ erErr.code \in Words /\ erErr.details \in 0..MaxDetails
  /\ erBuiltIn \in BOOLEAN /\ erPanic \in BOOLEAN

LEMMA ErrorTypes == ErrorIInv /\ ErrorRanges => ErrorTypeOK
<1> SUFFICES ASSUME ErrorIInv, ErrorRanges PROVE ErrorTypeOK
  OBVIOUS
<1>1. erMade \in Seq(Int) /\ erPool = ToSet(erMade) /\ erErr \in Carried
  BY DEF ErrorIInv, PoolExact, Carries
<1>2. erPool = {erMade[i] : i \in 1..Len(erMade)}
  BY <1>1 DEF ToSet
<1>3. erPool \subseteq Words /\ \A i \in 1..Len(erMade) : erMade[i] \in erPool
  BY <1>2 DEF ErrorRanges
<1>4. erMade \in Seq(erPool)
  BY <1>1, <1>3
<1>5. erErr \in [form : {"none", "nil", "status", "json", "text"}, code : Words, details : 0..MaxDetails]
  BY <1>1 DEF Carried, ErrorRanges
<1>6. QED
  BY <1>3, <1>4, <1>5 DEF ErrorTypeOK, ErrorRanges, Words

LEMMA Int32InWords == \A n \in Int : Int32(n) \in Words
<1>1. ASSUME NEW n \in Int PROVE Int32(n) \in Words
  <2>1. PICK w \in Nat \ {0} : w = 2 * HalfWord
    BY ErrorPoolAssumption
  <2>2. (n + HalfWord) % w \in 0..(w - 1)
    BY ErrorPoolAssumption
  <2>3. QED
    BY <2>1, <2>2, ErrorPoolAssumption DEF Int32, Words
<1>2. QED
  BY <1>1

LEMMA FormRanges ==
  ASSUME NEW code \in Words, NEW details \in 0..MaxDetails
  PROVE  /\ ErrOf(code, details).code \in Words /\ ErrOf(code, details).details \in 0..MaxDetails
         /\ JsonOf(code, details).code \in Words /\ JsonOf(code, details).details \in 0..MaxDetails
         /\ MarshalStatus(code, details).code \in Words
         /\ MarshalStatus(code, details).details \in 0..MaxDetails
<1>1. 0 \in Words /\ 0 \in 0..MaxDetails
  BY ErrorPoolAssumption DEF Words
<1>2. ErrOf(code, details).code \in Words /\ ErrOf(code, details).details \in 0..MaxDetails
  BY <1>1 DEF ErrOf, Nil
<1>3. JsonOf(code, details).code \in Words /\ JsonOf(code, details).details \in 0..MaxDetails
  BY DEF JsonOf
<1>4. MarshalStatus(code, details) \in {ErrOf(code, details), JsonOf(code, details)}
  BY DEF MarshalStatus
<1>5. QED
  BY <1>2, <1>3, <1>4

LEMMA ErrorRangesInit == ErrorInit => ErrorRanges
<1> SUFFICES ASSUME ErrorInit PROVE ErrorRanges
  OBVIOUS
<1>1. Len(erMade) = 0 /\ erErr.code = 0 /\ erErr.details = 0
  BY DEF ErrorInit, NoError
<1>2. 0 \in Words /\ 0 \in 0..MaxDetails
  BY ErrorPoolAssumption DEF Words
<1>3. erBuiltIn \in BOOLEAN /\ erPanic \in BOOLEAN
  BY DEF ErrorInit
<1>4. QED
  BY <1>1, <1>2, <1>3 DEF ErrorRanges

LEMMA ErrorRangesKept == ErrorIInv /\ ErrorRanges /\ [ErrorNext]_errorVars => ErrorRanges'
<1> SUFFICES ASSUME ErrorIInv, ErrorRanges, [ErrorNext]_errorVars PROVE ErrorRanges'
  OBVIOUS
<1>0. 0 \in Words /\ 0 \in 0..MaxDetails /\ 1 \in 0..MaxDetails /\ Words \subseteq Int /\ Words' = Words
  BY ErrorPoolAssumption DEF Words
<1>1. CASE UNCHANGED errorVars
  BY <1>0, <1>1 DEF ErrorRanges, errorVars
<1>2. ASSUME NEW flag \in BOOLEAN, BuiltIn(flag) PROVE ErrorRanges'
  BY <1>0, <1>2 DEF BuiltIn, ErrorRanges
<1>3. ASSUME NEW base \in Bases, NEW code \in Codes, AddError(base, code) PROVE ErrorRanges'
  <2>1. PICK full \in Words : full = FullCode(base, code)
    <3>1. Int32(code) \in Words /\ base \in Int
      BY Int32InWords, ErrorPoolAssumption
    <3>2. PICK c \in Int : c = Int32(code)
      BY <1>0, <3>1
    <3>3. c + base \in Int
      BY <3>1
    <3>4. Int32(Int32(code) + base) \in Words
      BY <3>2, <3>3, Int32InWords
    <3>5. QED
      BY <3>4 DEF FullCode
  <2>2. erErr' = erErr \/ erErr' = MarshalStatus(full, 0)
    BY <1>3, <2>1 DEF AddError
  <2>3. erErr'.code \in Words /\ erErr'.details \in 0..MaxDetails
    BY <1>0, <2>2, FormRanges DEF ErrorRanges
  <2>4. erMade' = erMade \/ erMade' = Append(erMade, full)
    BY <1>3, <2>1 DEF AddError
  <2>5. \A i \in 1..Len(erMade') : erMade'[i] \in Words
    <3>1. erMade \in Seq(Int) /\ full \in Int
      BY <1>0 DEF ErrorIInv, PoolExact
    <3>2. \A i \in 1..Len(Append(erMade, full)) :
            Append(erMade, full)[i] = full \/ (i \in 1..Len(erMade) /\ Append(erMade, full)[i] = erMade[i])
      BY <3>1
    <3>3. QED
      BY <2>4, <3>2 DEF ErrorRanges
  <2>6. erBuiltIn' = erBuiltIn /\ erPanic' \in {TRUE, erPanic}
    BY <1>3 DEF AddError
  <2>7. QED
    BY <1>0, <2>3, <2>5, <2>6 DEF ErrorRanges
<1>4. ASSUME erErr'.code \in Words, erErr'.details \in 0..MaxDetails,
             UNCHANGED <<erMade, erBuiltIn, erPanic>>
      PROVE  ErrorRanges'
  BY <1>0, <1>4 DEF ErrorRanges
<1>5. ASSUME NEW code \in Codes, NEW cause \in BOOLEAN, Internal(code, cause) PROVE ErrorRanges'
  <2>1. PICK full \in Words, details \in 0..MaxDetails :
          full = Int32(code) /\ details = IF cause THEN Detailed(Int32(code), 0) ELSE 0
    <3>1. Int32(code) \in Words
      BY Int32InWords, ErrorPoolAssumption
    <3>2. Detailed(Int32(code), 0) \in {0, 1}
      BY DEF Detailed
    <3>3. QED
      BY <1>0, <3>1, <3>2
  <2>2. erErr' = MarshalStatus(full, details)
    BY <1>5, <2>1 DEF Internal
  <2>3. QED
    BY <1>4, <1>5, <2>2, FormRanges DEF Internal
<1>6. CASE ForeignError
  <2>1. \/ erErr' = [form |-> "text", code |-> 0, details |-> 0]
        \/ \E code \in Words : erErr' = JsonOf(code, 0)
    BY <1>0, <1>6, Int32InWords, ErrorPoolAssumption DEF ForeignError
  <2>2. erErr'.code \in Words /\ erErr'.details \in 0..MaxDetails
    BY <1>0, <2>1 DEF JsonOf
  <2>3. QED
    BY <1>4, <1>6, <2>2 DEF ForeignError
<1>7. CASE Marshal
  <2>1. erErr' = erErr \/ erErr' = JsonOf(erErr.code, erErr.details)
    BY <1>7 DEF Marshal
  <2>2. erErr'.code \in Words /\ erErr'.details \in 0..MaxDetails
    BY <2>1, FormRanges DEF ErrorRanges
  <2>3. QED
    BY <1>4, <1>7, <2>2 DEF Marshal
<1>8. CASE WithDetails
  <2>1. PICK details \in 0..MaxDetails : details = Detailed(erErr.code, erErr.details)
    <3>1. erErr.details < MaxDetails /\ erErr.details \in 0..MaxDetails
      BY <1>8 DEF WithDetails, ErrorRanges
    <3>2. QED
      BY <1>0, <3>1, ErrorPoolAssumption DEF Detailed
  <2>2. erErr' = Nil \/ erErr' = ErrOf(erErr.code, details)
    BY <1>8, <2>1 DEF WithDetails
  <2>3. erErr'.code \in Words /\ erErr'.details \in 0..MaxDetails
    <3>1. Nil.code = 0 /\ Nil.details = 0
      BY DEF Nil
    <3>2. erErr.code \in Words
      BY DEF ErrorRanges
    <3>3. QED
      BY <1>0, <2>2, <3>1, <3>2, FormRanges
  <2>4. QED
    BY <1>4, <1>8, <2>3 DEF WithDetails
<1>9. QED
  BY <1>1, <1>2, <1>3, <1>5, <1>6, <1>7, <1>8 DEF ErrorNext

-----------------------------------------------------------------------------
(* AppBuilder. *)

BuilderPlaces ==
  /\ abPlan \in Plans /\ abStage \in 1..(Len(abPlan) + 1)
  /\ abOutcome \in {"building", "built", "error"} /\ abSource \in {"none", "open", "closed"}
  /\ abPanic \in BOOLEAN

LEMMA BuilderTypes == BuilderIInv /\ BuilderPlaces => BuilderTypeOK
<1> SUFFICES ASSUME BuilderIInv, BuilderPlaces PROVE BuilderTypeOK
  OBVIOUS
<1>1. \A i \in DOMAIN abCleanups : abCleanups[i].isNil \in BOOLEAN
  <2>1. \A i \in DOMAIN abCleanups : abCleanups[i] \in Cleanups
    BY DEF BuilderIInv
  <2>2. \A c \in Cleanups : c.isNil \in BOOLEAN
    BY DEF Cleanups
  <2>3. QED
    BY <2>1, <2>2
<1>2. Len(abCleanups) \in Nat /\ Len(abStopped) \in Nat /\ abCleaning \in Int
  BY DEF BuilderIInv
<1>3. abCleaning = -1 \/ (abCleaning >= 0 /\ Len(abStopped) = Len(abCleanups) - abCleaning)
  BY DEF BuilderIInv, StoppedFromEnd
<1>4. abCleaning \in -1..Len(abCleanups)
  BY <1>2, <1>3
<1>5. QED
  BY <1>1, <1>4 DEF BuilderPlaces, BuilderTypeOK

LEMMA PlanLength == ASSUME NEW plan \in Plans PROVE Len(plan) \in Nat
<1> DEFINE Plan(source, logger, tracer, metric, n, gops) ==
      <<<<"run", 0>>>> \o source \o logger \o tracer \o metric \o FuncParts(n) \o gops
<1>0. Plans = {Plan(source, logger, tracer, metric, n, gops) :
        source \in {<<>>, <<<<"source", 0>>, <<"scan", 0>>>>}, logger \in Parts(<<"logger", 0>>),
        tracer \in Parts(<<"tracer", 1>>), metric \in Parts(<<"metric", 1>>),
        n \in 0..MaxFuncs, gops \in Parts(<<"gops", 0>>)}
  BY DEF Plans, Plan
<1> HIDE DEF Plan
<1>1. PICK source \in {<<>>, <<<<"source", 0>>, <<"scan", 0>>>>}, logger \in Parts(<<"logger", 0>>),
           tracer \in Parts(<<"tracer", 1>>), metric \in Parts(<<"metric", 1>>),
           n \in 0..MaxFuncs, gops \in Parts(<<"gops", 0>>) :
        plan = Plan(source, logger, tracer, metric, n, gops)
  BY <1>0
<1>2. PICK S : S = {<<"run", 0>>, <<"source", 0>>, <<"scan", 0>>, <<"logger", 0>>, <<"tracer", 1>>,
                    <<"metric", 1>>, <<"gops", 0>>} \cup {<<"func", i>> : i \in 1..MaxFuncs}
  OBVIOUS
<1>3. PICK run \in S, src \in S, scan \in S, log \in S, trc \in S, met \in S, gop \in S :
        /\ run = <<"run", 0>> /\ src = <<"source", 0>> /\ scan = <<"scan", 0>> /\ log = <<"logger", 0>>
        /\ trc = <<"tracer", 1>> /\ met = <<"metric", 1>> /\ gop = <<"gops", 0>>
  BY <1>2, Zenon
<1>4. /\ <<run>> \in Seq(S) /\ source \in {<<>>, <<src, scan>>}
      /\ logger \in {<<>>, <<log>>} /\ tracer \in {<<>>, <<trc>>}
      /\ metric \in {<<>>, <<met>>} /\ gops \in {<<>>, <<gop>>}
  BY <1>1, <1>3 DEF Parts
<1>5. /\ source \in Seq(S) /\ logger \in Seq(S) /\ tracer \in Seq(S)
      /\ metric \in Seq(S) /\ gops \in Seq(S)
  <2>1. \A x \in S : <<x>> \in Seq(S)
    OBVIOUS
  <2>2. <<src, scan>> \in Seq(S) /\ <<>> \in Seq(S)
    OBVIOUS
  <2>3. QED
    BY <1>4, <2>1, <2>2, Zenon
<1>6. FuncParts(n) \in Seq(S)
  <2>1. \A i \in 1..n : <<"func", i>> \in S
    <3>1. \A i \in 1..n : i \in 1..MaxFuncs
      BY AppBuilderAssumption
    <3>2. QED
      BY <1>2, <3>1, Zenon
  <2>2. ASSUME NEW f, f = [i \in 1..n |-> <<"func", i>>] PROVE f \in Seq(S)
    BY <2>1, <2>2
  <2>3. QED
    BY <2>2 DEF FuncParts
<1>7. \A s, t \in Seq(S) : s \o t \in Seq(S)
  OBVIOUS
<1>8. plan = <<run>> \o source \o logger \o tracer \o metric \o FuncParts(n) \o gops
  BY <1>1, <1>3 DEF Plan
<1>9. plan \in Seq(S)
  BY <1>4, <1>5, <1>6, <1>7, <1>8, Zenon
<1>10. QED
  BY <1>9

LEMMA BuilderPlacesInit == BuilderInit => BuilderPlaces
<1> SUFFICES ASSUME BuilderInit PROVE BuilderPlaces
  OBVIOUS
<1>1. Len(abPlan) \in Nat
  BY PlanLength DEF BuilderInit
<1>2. abStage \in 1..(Len(abPlan) + 1)
  BY <1>1 DEF BuilderInit
<1>3. QED
  BY <1>2 DEF BuilderInit, BuilderPlaces

LEMMA BuilderPlacesKept == BuilderPlaces /\ [BuilderNext]_builderVars => BuilderPlaces'
<1> SUFFICES ASSUME BuilderPlaces, [BuilderNext]_builderVars PROVE BuilderPlaces'
  OBVIOUS
<1>1. UNCHANGED abPlan /\ Len(abPlan) \in Nat
  BY PlanLength DEF BuilderNext, StartPart, PartFails, Built, CallCleanup, RunCleanup, builderVars, BuilderPlaces
<1>2. abStage' = abStage \/ (abStage <= Len(abPlan) /\ abStage' = abStage + 1)
  BY DEF BuilderNext, StartPart, PartFails, Built, CallCleanup, RunCleanup, builderVars
<1>3. abStage' \in 1..(Len(abPlan) + 1)
  BY <1>1, <1>2 DEF BuilderPlaces
<1>4. abOutcome' \in {abOutcome, "built", "error"} /\ abPanic' \in {abPanic, TRUE}
  BY DEF BuilderNext, StartPart, PartFails, Built, CallCleanup, RunCleanup, builderVars
<1>5. abSource' \in {abSource, "open", "closed"}
  BY DEF BuilderNext, StartPart, PartFails, Built, CallCleanup, RunCleanup, builderVars, Deferred
<1>6. QED
  BY <1>1, <1>3, <1>4, <1>5 DEF BuilderPlaces

-----------------------------------------------------------------------------
(* Observable. *)

ObservableCounts == obPanic \in BOOLEAN /\ obTriggers \in 0..MaxTriggers

LEMMA ObservableTypes == ObservableIInv /\ ObservableCounts => ObservableTypeOK
<1> SUFFICES ASSUME ObservableIInv, ObservableCounts PROVE ObservableTypeOK
  OBVIOUS
<1>1. PICK n \in Nat : n = Len(obInfo) /\ n <= MaxCallbacks
  BY DEF ObservableIInv
<1>2. 1..n \subseteq Ids /\ 0..n \subseteq Ids \cup {0}
  BY <1>1, ObservableAssumption DEF Ids
<1>3. \A i \in DOMAIN obInfo : obInfo[i] \in Infos
  BY DEF ObservableIInv
<1>4. obCalls \in [Ids -> 0..2]
  BY DEF ObservableIInv
<1>5. ASSUME NEW g \in Triggerers
      PROVE  obGo[g].todo \in Seq(Names) /\ obGo[g].cbs \in Seq(Ids) /\ obGo[g].remove \in Ids \cup {0}
  <2>1. obGo[g].todo \in Seq(Names) /\ obGo[g].cbs \in Seq(1..n) /\ obGo[g].remove \in 0..n
    BY <1>1 DEF ObservableIInv, Goes
  <2>2. obGo[g].cbs \in Seq(Ids)
    BY <1>2, <2>1
  <2>3. QED
    BY <1>2, <2>1, <2>2
<1>6. \A e \in Names : obLists[e] \in Seq(1..Len(obInfo))
  BY DEF ObservableIInv
<1>7. obCalled \subseteq Ids
  BY <1>1, <1>2 DEF ObservableIInv
<1>8. QED
  BY <1>3, <1>4, <1>5, <1>6, <1>7 DEF ObservableTypeOK, ObservableCounts, Infos

LEMMA ObservableCountsInit == ObservableInit => ObservableCounts
<1> SUFFICES ASSUME ObservableInit PROVE ObservableCounts
  OBVIOUS
<1>1. obPanic \in BOOLEAN
  BY DEF ObservableInit
<1>2. obTriggers \in 0..MaxTriggers
  BY ObservableAssumption DEF ObservableInit
<1>3. QED
  BY <1>1, <1>2 DEF ObservableCounts

LEMMA RemoveEventPanics ==
  ASSUME ObservableIInv, NEW e \in Names, NEW fn, RemoveEvent(e, fn)
  PROVE  obPanic' \in BOOLEAN
<1>1. obLists[e] \in Seq(1..Len(obInfo))
  BY DEF ObservableIInv
<1>2. Removed(obLists[e], fn) \in Loops(1..Len(obInfo), Len(obLists[e]))
  BY <1>1, RemovedKeeps
<1>3. Removed(obLists[e], fn).bad \in BOOLEAN
  BY <1>2 DEF Loops
<1>4. QED
  BY <1>3 DEF RemoveEvent

LEMMA ObservableCountsKept ==
  ObservableIInv /\ ObservableCounts /\ [ObservableNext]_obVars => ObservableCounts'
<1> SUFFICES ASSUME ObservableIInv, ObservableCounts, [ObservableNext]_obVars PROVE ObservableCounts'
  OBVIOUS
<1>1. CASE UNCHANGED <<obPanic, obTriggers>>
  BY <1>1 DEF ObservableCounts
<1>2. ASSUME NEW e \in Events, NEW fn \in Callables, OffFunction(e, fn) PROVE ObservableCounts'
  BY <1>2, RemoveEventPanics DEF OffFunction, ObservableCounts, Names
<1>3. ASSUME NEW g \in Triggerers, RemoveOnce(g) PROVE ObservableCounts'
  <2>1. obInfo[obGo[g].remove].event \in Names
    <3>1. obGo[g].remove \in 1..Len(obInfo)
      BY <1>3 DEF RemoveOnce, ObservableIInv, Goes
    <3>2. obInfo[obGo[g].remove] \in Infos
      BY <3>1 DEF ObservableIInv
    <3>3. QED
      BY <3>2 DEF Infos
  <2>2. obPanic' \in BOOLEAN
    BY <1>3, <2>1, RemoveEventPanics DEF RemoveOnce
  <2>3. QED
    BY <1>3, <2>2 DEF RemoveOnce, ObservableCounts
<1>4. ASSUME NEW g \in Triggerers, NEW e \in Names, Trigger(g, e) PROVE ObservableCounts'
  BY <1>4, ObservableAssumption DEF Trigger, ObservableCounts
<1>5. QED
  BY <1>1, <1>2, <1>3, <1>4
     DEF ObservableNext, Register, Off, Dispatch, Snapshot, CallNext, obVars

-----------------------------------------------------------------------------
(* SharedKvs. *)

KvsCounts == kvKind \in {"helper", "core"} /\ kvNext \in 1..(MaxAppends + 1)

LEMMA KvsTypes == SharedIInv /\ KvsCounts => SharedKvsTypeOK
<1> SUFFICES ASSUME SharedIInv, KvsCounts PROVE SharedKvsTypeOK
  OBVIOUS
<1>1. kvArrays \in Arrays /\ DOMAIN kvLoggers = 1..Len(kvLoggers) /\ LoggersFit(kvArrays, kvKind, kvLoggers)
  BY DEF SharedIInv
<1>2. ASSUME NEW i \in DOMAIN kvLoggers
      PROVE  /\ kvLoggers[i].arr \in 0..Len(kvArrays)
             /\ kvLoggers[i].arr # 0 => Len(kvLoggers[i].want) <= Len(kvArrays[kvLoggers[i].arr])
  <2>1. LoggerFits(kvArrays, kvKind, kvLoggers[i])
    BY <1>1 DEF LoggersFit
  <2>2. QED
    BY <1>1, <2>1, FitsTyped
<1>3. kvGarbled \subseteq DOMAIN kvLoggers
  BY <1>1 DEF SharedIInv
<1>4. QED
  BY <1>2, <1>3 DEF KvsCounts, SharedKvsTypeOK

LEMMA KvsCountsInit == SharedKvsInit => KvsCounts
BY SharedKvsAssumption DEF SharedKvsInit, KvsCounts

LEMMA KvsCountsKept == KvsCounts /\ [SharedKvsNext]_kvVars => KvsCounts'
<1> SUFFICES ASSUME KvsCounts, [SharedKvsNext]_kvVars PROVE KvsCounts'
  OBVIOUS
<1> DEFINE Counts == UNCHANGED kvKind /\ \/ UNCHANGED kvNext
                                         \/ kvNext <= MaxAppends /\ kvNext' = kvNext + 1
<1>1. ASSUME NEW h, NEW k, Derive(h, k) PROVE Counts
  BY <1>1 DEF Derive
<1>2. ASSUME NEW g, NEW h, LogBegin(g, h) PROVE Counts
  BY <1>2 DEF LogBegin
<1>3. ASSUME NEW g, LogEnd(g) PROVE Counts
  BY <1>3 DEF LogEnd
<1>4. UNCHANGED kvVars => Counts
  BY DEF kvVars
<1> HIDE DEF Counts
<1>5. Counts
  BY <1>1, <1>2, <1>3, <1>4 DEF SharedKvsNext, HelperWith, WithDDOtelTrace, CoreWith
<1>6. QED
  BY <1>5, SharedKvsAssumption DEF Counts, KvsCounts

-----------------------------------------------------------------------------
(* LogQuery. *)

QueryCounts ==
  /\ tqTotal \in 0..LogLimit /\ tqCount \in 0..MaxQueries
  /\ \A q \in Queries : tqQuery[q].step \in {"idle", "file", "line", "done"}

LEMMA QueryTypes == QueryIInv /\ QueryCounts => QueryTypeOK
<1> SUFFICES ASSUME QueryIInv, QueryCounts PROVE QueryTypeOK
  OBVIOUS
<1>1. Cardinality(Queries) \in Nat
  BY QueryAssumption, FS_CardinalityType
<1>2. tqTotal \in 0..(LogLimit + Cardinality(Queries))
  BY <1>1, QueryAssumption DEF QueryCounts
<1>3. QED
  BY <1>2 DEF QueryIInv, QueryCounts, QueryTypeOK

LEMMA QueryCountsInit == QueryInit => QueryCounts
<1> SUFFICES ASSUME QueryInit PROVE QueryCounts
  OBVIOUS
<1>1. tqTotal = 0 /\ tqCount = 0 /\ tqQuery = [q \in Queries |-> NoQuery]
  BY DEF QueryInit, QueryStart
<1>2. NoQuery.step = "idle"
  BY DEF NoQuery
<1>3. QED
  BY <1>1, <1>2, QueryAssumption DEF QueryCounts

LEMMA QueryCountsKept == QueryIInv /\ QueryCounts /\ [QueryNext]_queryVars => QueryCounts'
<1> SUFFICES ASSUME QueryIInv, QueryCounts, [QueryNext]_queryVars PROVE QueryCounts'
  OBVIOUS
<1>1. tqQuery = [p \in Queries |-> tqQuery[p]]
  BY DEF QueryIInv
<1>2. ASSUME NEW q \in Queries, NEW next, tqQuery' = [tqQuery EXCEPT ![q] = next],
             next.step \in {"idle", "file", "line", "done"},
             tqTotal' \in 0..LogLimit, tqCount' \in 0..MaxQueries
      PROVE  QueryCounts'
  <2>1. \A p \in Queries : tqQuery'[p] = IF p = q THEN next ELSE tqQuery[p]
    BY <1>1, <1>2
  <2>2. QED
    BY <1>2, <2>1 DEF QueryCounts
<1>3. ASSUME NEW q \in Queries, NEW r \in Requests, BeginQuery(q, r) PROVE QueryCounts'
  <2>1. PICK c : c = [NoQuery EXCEPT !.step = "file", !.request = r, !.day = DayOf(r.from)]
    OBVIOUS
  <2>2. c.step = "file"
    BY <2>1, NewRecordFields
  <2>3. tqQuery' = [tqQuery EXCEPT ![q] = c] /\ tqTotal' \in 0..LogLimit /\ tqCount' \in 0..MaxQueries
    BY <1>3, <2>1, QueryAssumption DEF BeginQuery, ResetTotal, QueryCounts
  <2>4. QED
    BY <1>2, <2>2, <2>3
<1>4. ASSUME NEW q \in Queries, NextFile(q) PROVE QueryCounts'
  <2>1. PICK c : c = tqQuery[q]
    OBVIOUS
  <2>2. PICK next : next = IF c.day > DayOf(c.request.to) \/ tqTotal >= LogLimit
                          THEN [c EXCEPT !.step = "done"]
                          ELSE IF Outside(tqFiles[c.day].lines, c.request) THEN [c EXCEPT !.day = @ + 1]
                          ELSE [c EXCEPT !.step = "line", !.line = 1, !.chunk = <<>>]
    OBVIOUS
  <2>3. tqQuery' = [tqQuery EXCEPT ![q] = next] /\ UNCHANGED <<tqTotal, tqCount>>
    BY <1>4, <2>1, <2>2 DEF NextFile
  <2>4. next.step \in {c.step, "done", "line"}
    BY <2>2
  <2>5. QED
    BY <1>2, <2>1, <2>3, <2>4 DEF QueryCounts
<1>5. ASSUME NEW q \in Queries, NextLine(q) PROVE QueryCounts'
  <2>1. tqTotal' \in 0..LogLimit /\ tqCount' \in 0..MaxQueries
    <3>1. tqTotal < LogLimit /\ (tqTotal' = tqTotal \/ tqTotal' \in Counted) /\ UNCHANGED tqCount
      BY <1>5 DEF NextLine
    <3>2. tqTotal' \in {tqTotal, tqTotal + 1}
      BY <3>1 DEF Counted
    <3>3. QED
      BY <3>1, <3>2, QueryAssumption DEF QueryCounts
  <2>2. \E next : tqQuery' = [tqQuery EXCEPT ![q] = next] /\ next.step = tqQuery[q].step
    <3>1. PICK c : c = tqQuery[q]
      OBVIOUS
    <3>2. PICK lines : lines = tqFiles[c.day].lines
      OBVIOUS
    <3>3. \/ tqQuery' = [tqQuery EXCEPT ![q].line = @ + 1]
          \/ tqQuery' = [tqQuery EXCEPT ![q].line = @ + 1, ![q].chunk = Append(@, lines[c.line])]
      BY <1>5, <3>1, <3>2 DEF NextLine
    <3>4. CASE tqQuery' = [tqQuery EXCEPT ![q].line = @ + 1]
      <4>1. PICK next : next = [c EXCEPT !.line = @ + 1]
        OBVIOUS
      <4>2. tqQuery' = [tqQuery EXCEPT ![q] = next] /\ next.step = c.step
        BY <3>1, <3>4, <4>1
      <4>3. QED
        BY <3>1, <4>2
    <3>5. CASE tqQuery' = [tqQuery EXCEPT ![q].line = @ + 1, ![q].chunk = Append(@, lines[c.line])]
      <4>1. PICK next : next = [c EXCEPT !.line = @ + 1, !.chunk = Append(@, lines[c.line])]
        OBVIOUS
      <4>2. next.step = c.step
        BY <4>1
      <4>3. tqQuery' = [tqQuery EXCEPT ![q] = next]
        BY <3>1, <3>5, <4>1
      <4>4. QED
        BY <3>1, <4>2, <4>3
    <3>6. QED
      BY <3>3, <3>4, <3>5
  <2>3. QED
    BY <1>2, <2>1, <2>2 DEF QueryCounts
<1>6. ASSUME NEW q \in Queries, ChunkEnds(q) PROVE QueryCounts'
  <2>1. PICK c : c = tqQuery[q]
    OBVIOUS
  <2>2. PICK next : next = [c EXCEPT !.step = "file", !.day = @ + 1, !.chunk = <<>>,
                                     !.results = IF SearchPanics(c) THEN @ ELSE @ \o c.chunk]
    OBVIOUS
  <2>3. tqQuery' = [tqQuery EXCEPT ![q] = next] /\ UNCHANGED <<tqTotal, tqCount>>
    BY <1>6, <2>1, <2>2 DEF ChunkEnds
  <2>4. next.step \in {c.step, "file"}
    BY <2>2
  <2>5. QED
    BY <1>2, <2>1, <2>3, <2>4 DEF QueryCounts
<1>7. CASE UNCHANGED queryVars
  BY <1>7 DEF queryVars, QueryCounts
<1>8. QED
  BY <1>3, <1>4, <1>5, <1>6, <1>7 DEF QueryNext

-----------------------------------------------------------------------------
(* SqlFilter. *)

FilterLengths == Len(flExps) <= Len(flCalls) /\ Len(flCalls) <= MaxFilterCalls

LEMMA FilterTypes == FilterIInv /\ FilterLengths => SqlFilterTypeOK
BY DEF FilterIInv, FilterLengths, FilterConds, SqlFilterTypeOK

LEMMA FilterLengthsInit == SqlFilterInit => FilterLengths
BY SqlFilterAssumption DEF SqlFilterInit, FilterLengths

LEMMA FilterLengthsKept ==
  FilterIInv /\ FilterLengths /\ [SqlFilterNext]_filterVars => FilterLengths'
<1> SUFFICES ASSUME FilterIInv, FilterLengths, [SqlFilterNext]_filterVars PROVE FilterLengths'
  OBVIOUS
<1>1. Len(flCalls) \in Nat /\ Len(flExps) \in Nat /\ DOMAIN flCalls = 1..Len(flCalls)
      /\ DOMAIN flExps = 1..Len(flExps)
  BY DEF FilterIInv
<1>2. \A x : Len(Append(flCalls, x)) = Len(flCalls) + 1 /\ Len(Append(flExps, x)) = Len(flExps) + 1
  BY <1>1
<1>3. CASE UNCHANGED filterVars
  BY <1>3 DEF filterVars, FilterLengths
<1>4. ASSUME Len(flCalls) < MaxFilterCalls, \E x : flCalls' = Append(flCalls, x),
             flExps' = flExps \/ \E x : flExps' = Append(flExps, x)
      PROVE  FilterLengths'
  <2>1. Len(flCalls') = Len(flCalls) + 1 /\ Len(flExps') \in {Len(flExps), Len(flExps) + 1}
    BY <1>2, <1>4
  <2>2. QED
    BY <1>1, <1>4, <2>1, SqlFilterAssumption DEF FilterLengths
<1>5. ASSUME NEW field \in Fields, NEW key \in ConditionKeys, With(field, key) PROVE FilterLengths'
  BY <1>4, <1>5, Zenon DEF With, LogCall
<1>6. ASSUME NEW field \in Fields, NEW key \in ConditionKeys, Update(field, key) PROVE FilterLengths'
  BY <1>4, <1>6, Zenon DEF Update, LogCall
<1>7. ASSUME NEW field \in Fields, NEW key \in ConditionKeys, NEW op \in QueryOps,
             Where(field, op, key) \/ Or(field, op, key)
      PROVE FilterLengths'
  BY <1>4, <1>7, Zenon DEF Where, Or, LogCall
<1>8. QED
  BY <1>3, <1>5, <1>6, <1>7 DEF SqlFilterNext

-----------------------------------------------------------------------------
(* SqlPages. *)

PageBounds ==
  /\ dbPool \in {"none", "open", "closed"} /\ dbOpened \in {"no", "opened", "error"}
  /\ sqNext \in 1..(MaxRows + 1) /\ Len(sqRows) < sqNext
  /\ sqPage.count \in 0..MaxRows
  /\ sqGot.count \in 0..MaxRows /\ Len(sqGot.rows) <= MaxRows

LEMMA PageTypes == PagesIInv /\ PageBounds => SqlPagesTypeOK
<1> SUFFICES ASSUME PagesIInv, PageBounds PROVE SqlPagesTypeOK
  OBVIOUS
<1>1. sqPage \in [step : {"idle", "page"}, index : 0..MaxPages, size : 0..MaxPages, count : 0..MaxRows]
  BY DEF PagesIInv, PageBounds
<1>2. QED
  BY <1>1 DEF PagesIInv, PageBounds, SqlPagesTypeOK

LEMMA PageBoundsInit == SqlPagesInit => PageBounds
<1> SUFFICES ASSUME SqlPagesInit PROVE PageBounds
  OBVIOUS
<1>1. Len(sqRows) = 0 /\ sqPage.count = 0 /\ sqGot.count = 0 /\ Len(sqGot.rows) = 0 /\ sqNext = 1
  BY DEF SqlPagesInit, NoPage
<1>2. QED
  BY <1>1, SqlPagesAssumption DEF SqlPagesInit, PageBounds

\* A page has no more rows than the table.
LEMMA SelectedBound ==
  ASSUME sqRows \in Seq(Int), NEW offset \in Nat, NEW limit \in Nat
  PROVE  Len(Select(offset, limit)) <= Len(sqRows)
<1>1. PICK s \in Seq(Int), n \in Nat : s = sqRows /\ n = Len(s)
  OBVIOUS
<1>2. PICK to \in Nat : to = (IF limit # 0 /\ offset + limit < n THEN offset + limit ELSE n) /\ to <= n
  <2>1. offset + limit \in Nat
    OBVIOUS
  <2>2. QED
    BY <1>1, <2>1
<1>3. Len(SubSeq(s, offset + 1, to)) <= n
  <2>1. Len(SubSeq(s, offset + 1, to)) = IF offset + 1 <= to THEN to - offset ELSE 0
    BY <1>1, <1>2
  <2>2. QED
    BY <1>2, <2>1
<1>4. QED
  BY <1>1, <1>2, <1>3, Zenon DEF Select

LEMMA PageBoundsKept ==
  PagesIInv /\ PageBounds /\ [SqlPagesNext]_<<openVars, pageVars>> => PageBounds'
<1> SUFFICES ASSUME PagesIInv, PageBounds, [SqlPagesNext]_<<openVars, pageVars>> PROVE PageBounds'
  OBVIOUS
<1>0. sqRows \in Seq(Int) /\ sqNext \in Int /\ Len(sqRows) \in Nat /\ Len(sqRows) <= MaxRows
      /\ MaxRows \in Nat
  BY SqlPagesAssumption DEF PagesIInv, PageBounds
<1>1. ASSUME NEW dialect, NEW given, NEW fault, Open(dialect, given, fault) PROVE PageBounds'
  <2>1. UNCHANGED pageVars /\ dbPool' \in {"none", "open", "closed"}
        /\ dbOpened' \in {"error", "opened"}
    BY <1>1 DEF Open
  <2>2. QED
    BY <2>1 DEF PageBounds, pageVars
<1>2. ASSUME NEW rows, NEW place, Changed(rows, place), Running, UNCHANGED <<sqPage, sqGot>>,
             sqNext' \in 1..(MaxRows + 1), Len(rows) < sqNext'
      PROVE  PageBounds'
  BY <1>2 DEF Changed, Running, openVars, PageBounds
<1>3. CASE InsertRow
  <2>1. PICK place \in 1..(Len(sqRows) + 1) : Changed(InsertAt(sqRows, place, sqNext), place)
    BY <1>3 DEF InsertRow
  <2>2. Len(InsertAt(sqRows, place, sqNext)) = Len(sqRows) + 1
    BY <1>0, CutLength
  <2>3. Running /\ UNCHANGED <<sqPage, sqGot>> /\ sqNext <= MaxRows /\ sqNext' = sqNext + 1
    BY <1>3 DEF InsertRow
  <2>4. sqNext' \in 1..(MaxRows + 1) /\ Len(sqRows) + 1 < sqNext'
    BY <1>0, <2>3 DEF PageBounds
  <2>5. QED
    BY <1>2, <2>1, <2>2, <2>3, <2>4
<1>4. CASE DeleteRow
  <2>1. PICK place \in DOMAIN sqRows : Changed(RemoveAt(sqRows, place), place)
    BY <1>4 DEF DeleteRow
  <2>2. Len(RemoveAt(sqRows, place)) = Len(sqRows) - 1
    <3>1. place \in 1..(Len(sqRows) + 1) /\ place <= Len(sqRows) /\ 0 \in Int
      BY <1>0
    <3>2. QED
      BY <1>0, <3>1, CutLength
  <2>3. Running /\ UNCHANGED <<sqPage, sqGot>> /\ sqNext' = sqNext
    BY <1>4 DEF DeleteRow
  <2>4. sqNext' \in 1..(MaxRows + 1) /\ Len(sqRows) - 1 < sqNext'
    BY <1>0, <2>3 DEF PageBounds
  <2>5. QED
    BY <1>2, <2>1, <2>2, <2>3, <2>4
<1>5. ASSUME NEW index \in 0..MaxPages, NEW size \in 0..MaxPages,
             PageQuery(index, size) \/ PageQueryWithExplain(index, size)
      PROVE  PageBounds'
  <2>1. \A count \in QueryCount \cup QueryCountWithExplain : count \in 0..MaxRows
    BY <1>0 DEF QueryCount, QueryCountWithExplain
  <2>2. PICK count \in 0..MaxRows : sqPage' = [step |-> "page", index |-> index, size |-> size, count |-> count]
    BY <1>5, <2>1 DEF PageQuery, PageQueryWithExplain, BeginPage
  <2>3. UNCHANGED <<sqRows, sqNext, sqGot, dbPool, dbOpened>>
    BY <1>5 DEF PageQuery, PageQueryWithExplain, BeginPage, Running, openVars
  <2>4. QED
    BY <2>2, <2>3 DEF PageBounds
<1>6. CASE ReadPage
  <2>1. PICK offset \in Nat, size \in Nat :
          offset = Offset(sqPage.index, sqPage.size) /\ size = sqPage.size
    <3>1. PICK i \in 0..MaxPages, z \in 0..MaxPages : i = sqPage.index /\ z = sqPage.size
      BY DEF PagesIInv
    <3>2. (i - 1) * z \in Int
      BY SqlPagesAssumption
    <3>3. ((i - 1) * z) % WordSize \in Nat
      BY <3>2, SqlPagesAssumption
    <3>4. QED
      BY <3>1, <3>3, SqlPagesAssumption DEF Offset
  <2>2. PICK rows : rows = Select(offset, size) /\ Len(rows) <= Len(sqRows)
    BY <1>0, <2>1, SelectedBound
  <2>3. /\ sqGot' = [rows |-> rows, count |-> sqPage.count] /\ sqPage' = NoPage
        /\ UNCHANGED <<sqRows, sqNext, dbPool, dbOpened>>
    BY <1>6, <2>1, <2>2 DEF ReadPage, Running, openVars
  <2>4. Len(sqGot'.rows) <= MaxRows /\ sqGot'.count \in 0..MaxRows /\ sqPage'.count \in 0..MaxRows
    <3>1. sqGot'.rows = rows /\ sqGot'.count = sqPage.count /\ sqPage'.count = 0
      BY <2>3 DEF NoPage
    <3>2. Len(rows) \in Int
      BY <1>0, <2>1, <2>2
    <3>3. QED
      BY <1>0, <2>2, <3>1, <3>2 DEF PageBounds
  <2>5. QED
    BY <2>3, <2>4 DEF PageBounds
<1>7. CASE PageFails
  <2>1. sqPage'.count = 0 /\ UNCHANGED <<sqRows, sqNext, sqGot, dbPool, dbOpened>>
    BY <1>7 DEF PageFails, NoPage, Running, openVars
  <2>2. QED
    BY <1>0, <2>1 DEF PageBounds
<1>8. CASE Query
  <2>1. PICK limit \in Nat : sqGot' = [rows |-> Select(0, limit), count |-> 0]
    BY <1>0, <1>8 DEF Query
  <2>2. PICK rows : rows = Select(0, limit) /\ Len(rows) <= Len(sqRows) /\ Len(rows) \in Int
    BY <1>0, SelectedBound
  <2>3. sqGot'.rows = rows /\ sqGot'.count = 0
    BY <2>1, <2>2
  <2>4. UNCHANGED <<sqRows, sqNext, sqPage, dbPool, dbOpened>>
    BY <1>8 DEF Query, Running, openVars
  <2>5. QED
    BY <1>0, <2>2, <2>3, <2>4 DEF PageBounds
<1>9. CASE UNCHANGED <<openVars, pageVars>>
  BY <1>9 DEF openVars, pageVars, PageBounds
<1>10. QED
  BY <1>1, <1>3, <1>4, <1>5, <1>6, <1>7, <1>8, <1>9 DEF SqlPagesNext

-----------------------------------------------------------------------------
(* LogText, Matching and EvalGen. *)

LEMMA LogTextTypesKept == LogTextTypeOK /\ [LogTextNext]_logTextVars => LogTextTypeOK'
BY DEF LogTextTypeOK, LogTextNext, CallWrite, CallLine, CallSplit, logTextVars

\* What a matcher answers is true or false.
LEMMA MatchersAnswer ==
  ASSUME NEW value, NEW pattern
  PROVE  /\ MatchSingle(value, pattern) \in BOOLEAN /\ Match(value, pattern) \in BOOLEAN
         /\ MatchIE(value, pattern) \in BOOLEAN /\ AnyMatch(value, pattern) \in BOOLEAN
         /\ AnyMatchIE(value, pattern) \in BOOLEAN
<1>1. \A P, Q : (P /\ Q) \in BOOLEAN
  OBVIOUS
<1>2. MatchSingle(value, pattern) \in BOOLEAN
  BY <1>1, Zenon DEF MatchSingle
<1>3. \A v, p : Match(v, p) \in BOOLEAN
  BY <1>1, Zenon DEF Match
<1>4. \A v, p : AnyMatch(v, p) \in BOOLEAN
  BY <1>1, Zenon DEF AnyMatch
<1>5. QED
  BY <1>2, <1>3, <1>4, Zenon DEF MatchIE, AnyMatchIE

LEMMA CallsTyped ==
  ASSUME NEW max \in Nat
  PROVE  /\ Values(max) \subseteq Seq(Letters \cup {"A"})
         /\ Exprs \subseteq Seq(Letters \cup {"A", "*", "!", ",", " "})
         /\ Patterns \subseteq Seq(Letters \cup {"A", "*", "!", ",", " "})
<1>1. ASSUME NEW T, NEW S \in SUBSET T, NEW n \in Nat, NEW s \in [1..n -> S] PROVE s \in Seq(T)
  OBVIOUS
<1>2. ASSUME NEW b, NEW n \in 0..b PROVE n \in Nat
  OBVIOUS
<1>3. PICK T : T = Letters \cup {"A", "*", "!", ",", " "}
  OBVIOUS
<1>4. Letters \cup {"*"} \in SUBSET T /\ Letters \cup {"*", "!", ",", " "} \in SUBSET T
  BY <1>3
<1>5. Values(max) \subseteq Seq(Letters \cup {"A"})
  <2>1. Letters \cup {"A"} \in SUBSET (Letters \cup {"A"})
    OBVIOUS
  <2>2. QED
    BY <1>1, <1>2, <2>1, Zenon DEF Values
<1>6. Exprs \subseteq Seq(T) /\ Patterns \subseteq Seq(T)
  BY <1>1, <1>2, <1>4, Zenon DEF Exprs, Patterns
<1>7. QED
  BY <1>3, <1>5, <1>6

LEMMA MatchingTypesInit == MatchingInit => MatchingTypeOK
<1>1. <<>> \in Seq(Letters \cup {"A"}) /\ <<>> \in Seq(Letters \cup {"A", "*", "!", ",", " "})
  OBVIOUS
<1>2. QED
  BY <1>1 DEF MatchingInit, NoCallYet, MatchingTypeOK

LEMMA MatchingTypesKept == MatchingTypeOK /\ [MatchingNext]_matchVars => MatchingTypeOK'
<1> SUFFICES ASSUME MatchingTypeOK, [MatchingNext]_matchVars PROVE MatchingTypeOK'
  OBVIOUS
<1>1. CASE UNCHANGED matchVars
  BY <1>1 DEF matchVars, MatchingTypeOK
<1>2. PICK V, P, B : /\ V = Seq(Letters \cup {"A"}) /\ P = Seq(Letters \cup {"A", "*", "!", ",", " "})
                     /\ B = BOOLEAN
  OBVIOUS
<1>3. ASSUME NEW fn \in {"single", "match", "matchIE", "any", "anyIE"}, NEW value \in V, NEW pattern \in P,
             NEW result \in B, Returns(fn, value, pattern, result)
      PROVE  MatchingTypeOK'
  <2>1. [fn |-> fn, value |-> value, pattern |-> pattern, result |-> result]
          \in [fn : {"none", "single", "match", "matchIE", "any", "anyIE"}, value : V, pattern : P, result : B]
    OBVIOUS
  <2>2. QED
    BY <1>2, <1>3, <2>1, Zenon DEF Returns, MatchingTypeOK
<1>4. /\ Values(MaxValue) \subseteq V /\ Values(MaxListed) \subseteq V
      /\ Exprs \subseteq P /\ Patterns \subseteq P
  BY <1>2, CallsTyped, MatchingAssumption
<1>5. ASSUME NEW value, NEW pattern
      PROVE  /\ MatchSingle(value, pattern) \in B /\ Match(value, pattern) \in B
             /\ MatchIE(value, pattern) \in B /\ AnyMatch(value, pattern) \in B
             /\ AnyMatchIE(value, pattern) \in B
  BY <1>2, MatchersAnswer, Zenon
<1>6. QED
  BY <1>1, <1>3, <1>4, <1>5, Zenon DEF MatchingNext

-----------------------------------------------------------------------------
(* EvalGen. *)

Outcomes == {"none", "accepted", "true", "false", "error", "missing", "parse"}

\* What an expression evaluates to.
LEMMA ExprOutcome ==
  ASSUME NEW expr, NEW ctx
  PROVE  EvalExpr(expr, ctx) \in Outcomes /\ TestOutcome(expr, ctx) \in Outcomes
<1>1. ASSUME NEW call PROVE EvalCall(call, ctx) \in Outcomes
  <2>1. \A P, Q, a, b : a \in {"error", "true", "false"} /\ b \in {"error", "true", "false"} =>
          (IF P THEN "missing" ELSE IF Q THEN a ELSE b) \in Outcomes
    BY DEF Outcomes
  <2>2. QED
    BY <2>1, CallOutcome, Zenon DEF EvalCall
<1>2. EvalExpr(expr, ctx) \in Outcomes
  BY <1>1, Zenon DEF EvalExpr
<1>3. TestOutcome(expr, ctx) \in {EvalExpr(expr, ctx), "missing"}
  <2>1. \A P, a, b : (IF P THEN a ELSE b) \in {b, a}
    OBVIOUS
  <2>2. QED
    BY <2>1, Zenon DEF TestOutcome
<1>4. QED
  BY <1>2, <1>3 DEF Outcomes

LEMMA EvalTypesInit == EvalInit => EvalTypeOK
BY DEF EvalInit, EvalTypeOK

LEMMA EvalTypesKept == EvalTypeOK /\ [EvalNext]_evalVars => EvalTypeOK'
<1> SUFFICES ASSUME EvalTypeOK, [EvalNext]_evalVars PROVE EvalTypeOK'
  OBVIOUS
<1>0. /\ evExpr \in Expressions \cup {<<>>} /\ evTested \in BOOLEAN /\ evDefaults \in BOOLEAN
      /\ evResult \in Outcomes
  BY Zenon DEF EvalTypeOK, Outcomes
<1>1. SUFFICES /\ evExpr' \in Expressions \cup {<<>>} /\ evTested' \in BOOLEAN /\ evDefaults' \in BOOLEAN
               /\ evResult' \in Outcomes
  BY Zenon DEF EvalTypeOK, Outcomes
<1>2. CASE UNCHANGED evalVars
  BY <1>0, <1>2 DEF evalVars
<1>3. ASSUME NEW expr \in Expressions, NEW tested \in BOOLEAN, NEW defaults \in BOOLEAN,
             Gen(expr, TheTest, tested, defaults)
      PROVE  /\ evExpr' \in Expressions \cup {<<>>} /\ evTested' \in BOOLEAN /\ evDefaults' \in BOOLEAN
             /\ evResult' \in Outcomes
  <2>1. PICK outcome \in Outcomes : outcome = IF tested THEN TestOutcome(expr, TheTest) ELSE "true"
    <3>1. "true" \in Outcomes
      BY DEF Outcomes
    <3>2. QED
      BY <3>1, ExprOutcome
  <2>2. /\ evTested' = tested /\ evDefaults' = defaults
        /\ evExpr' = evExpr \/ evExpr' = expr
        /\ evResult' \in {"parse", "accepted", outcome}
    BY <1>3, <2>1 DEF Gen
  <2>3. "parse" \in Outcomes /\ "accepted" \in Outcomes
    BY DEF Outcomes
  <2>4. evTested' \in BOOLEAN /\ evDefaults' \in BOOLEAN
    BY <2>2
  <2>5. QED
    BY <1>0, <2>2, <2>3, <2>4
<1>4. ASSUME NEW ctx \in Contexts, Evaluate(ctx)
      PROVE  /\ evExpr' \in Expressions \cup {<<>>} /\ evTested' \in BOOLEAN /\ evDefaults' \in BOOLEAN
             /\ evResult' \in Outcomes
  <2>1. evResult' = EvalExpr(evExpr, ctx) /\ UNCHANGED <<evExpr, evTested, evDefaults>>
    BY <1>4 DEF Evaluate
  <2>2. QED
    BY <1>0, <2>1, ExprOutcome
<1>5. QED
  BY <1>2, <1>3, <1>4 DEF EvalNext

-----------------------------------------------------------------------------
(* The components side by side.                                            *)

\* Every component takes a step of its own or stands still.
StepsOfAll ==
  /\ [LogQueueNext]_lqVars /\ [SharedKvsNext]_kvVars /\ [KafkaNext]_kafkaVars
  /\ [CollectorNext]_coVars /\ [MetricNext]_metricVars /\ [ObservableNext]_obVars
  /\ [SqlNext]_txVars /\ [PoolNext]_poolVars /\ [QueryNext]_queryVars
  /\ [MatchingNext]_matchVars /\ [EvalNext]_evalVars /\ [SqlFilterNext]_filterVars
  /\ [SqlPagesNext]_<<openVars, pageVars>> /\ [ErrorNext]_errorVars /\ [BuilderNext]_builderVars
  /\ [ProbeNext]_probeVars /\ [LogTextNext]_logTextVars

LEMMA OneMoves == [ServicesNext]_servicesVars => StepsOfAll /\ UNCHANGED part
<1> SUFFICES ASSUME [ServicesNext]_servicesVars PROVE StepsOfAll /\ UNCHANGED part
  OBVIOUS
<1>1. CASE Moves("queue", LogQueueNext)
  BY <1>1 DEF Moves, StepsOfAll
<1>2. CASE Moves("kvs", SharedKvsNext)
  BY <1>2 DEF Moves, StepsOfAll
<1>3. CASE Moves("kafka", KafkaNext)
  BY <1>3 DEF Moves, StepsOfAll
<1>4. CASE Moves("collector", CollectorNext)
  BY <1>4 DEF Moves, StepsOfAll
<1>5. CASE Moves("metric", MetricNext)
  BY <1>5 DEF Moves, StepsOfAll
<1>6. CASE Moves("observable", ObservableNext)
  BY <1>6 DEF Moves, StepsOfAll
<1>7. CASE Moves("transaction", SqlNext)
  BY <1>7 DEF Moves, StepsOfAll
<1>8. CASE Moves("pool", PoolNext)
  BY <1>8 DEF Moves, StepsOfAll
<1>9. CASE Moves("query", QueryNext)
  BY <1>9 DEF Moves, StepsOfAll
<1>10. CASE Moves("matching", MatchingNext)
  BY <1>10 DEF Moves, StepsOfAll
<1>11. CASE Moves("eval", EvalNext)
  BY <1>11 DEF Moves, StepsOfAll
<1>12. CASE Moves("filter", SqlFilterNext)
  BY <1>12 DEF Moves, StepsOfAll
<1>13. CASE Moves("pages", SqlPagesNext)
  BY <1>13 DEF Moves, StepsOfAll
<1>14. CASE Moves("errors", ErrorNext)
  BY <1>14 DEF Moves, StepsOfAll
<1>15. CASE Moves("builder", BuilderNext)
  BY <1>15 DEF Moves, StepsOfAll
<1>16. CASE Moves("probe", ProbeNext)
  BY <1>16 DEF Moves, StepsOfAll
<1>17. CASE Moves("text", LogTextNext)
  BY <1>17 DEF Moves, StepsOfAll
<1>18. CASE UNCHANGED servicesVars
  BY <1>18 DEF servicesVars, lastingVars, libraryVars, StepsOfAll
<1>19. QED
  BY <1>1, <1>2, <1>3, <1>4, <1>5, <1>6, <1>7, <1>8, <1>9, <1>10,
     <1>11, <1>12, <1>13, <1>14, <1>15, <1>16, <1>17, <1>18 DEF ServicesNext

\* A query that does not move has any files, else it begins as its own
\* specification says; every other component does.
LEMMA AllBegin ==
  ServicesInit =>
    /\ LogQueueInit /\ SharedKvsInit /\ KafkaInit
    /\ CollectorInit /\ MetricInit /\ ObservableInit
    /\ SqlInit /\ PoolInit /\ MatchingInit
    /\ EvalInit /\ SqlFilterInit /\ SqlPagesInit
    /\ ErrorInit /\ BuilderInit /\ ProbeInit
    /\ LogTextInit
    /\ tqAlone = {} /\ (Rests("query") \/ QueryInit)
<1> SUFFICES ASSUME ServicesInit
             PROVE  /\ tqAlone = {} /\ (Rests("query") \/ QueryInit)
  BY Zenon DEF ServicesInit
<1>1. QED
  BY DEF ServicesInit, QueryInit, QueryStart

\* Each component but the query starts as its own specification says, and the
\* steps of the run are steps of its own or leave it alone.
LEMMA EachMoves ==
  ServicesSpec =>
    /\ LogQueueInit /\ [][LogQueueNext]_lqVars
    /\ SharedKvsInit /\ [][SharedKvsNext]_kvVars
    /\ KafkaInit /\ [][KafkaNext]_kafkaVars
    /\ CollectorInit /\ [][CollectorNext]_coVars
    /\ MetricInit /\ [][MetricNext]_metricVars
    /\ ObservableInit /\ [][ObservableNext]_obVars
    /\ SqlInit /\ [][SqlNext]_txVars
    /\ PoolInit /\ [][PoolNext]_poolVars
    /\ MatchingInit /\ [][MatchingNext]_matchVars
    /\ EvalInit /\ [][EvalNext]_evalVars
    /\ SqlFilterInit /\ [][SqlFilterNext]_filterVars
    /\ SqlPagesInit /\ [][SqlPagesNext]_<<openVars, pageVars>>
    /\ ErrorInit /\ [][ErrorNext]_errorVars
    /\ BuilderInit /\ [][BuilderNext]_builderVars
    /\ ProbeInit /\ [][ProbeNext]_probeVars
    /\ LogTextInit /\ [][LogTextNext]_logTextVars
<1>1. ServicesSpec => LogQueueInit /\ [][LogQueueNext]_lqVars
  <2>1. ServicesInit => LogQueueInit
    BY AllBegin, Zenon
  <2>2. [ServicesNext]_servicesVars => [LogQueueNext]_lqVars
    BY OneMoves, Zenon DEF StepsOfAll
  <2>3. QED
    BY <2>1, <2>2, PTL DEF ServicesSpec
<1>2. ServicesSpec => SharedKvsInit /\ [][SharedKvsNext]_kvVars
  <2>1. ServicesInit => SharedKvsInit
    BY AllBegin, Zenon
  <2>2. [ServicesNext]_servicesVars => [SharedKvsNext]_kvVars
    BY OneMoves, Zenon DEF StepsOfAll
  <2>3. QED
    BY <2>1, <2>2, PTL DEF ServicesSpec
<1>3. ServicesSpec => KafkaInit /\ [][KafkaNext]_kafkaVars
  <2>1. ServicesInit => KafkaInit
    BY AllBegin, Zenon
  <2>2. [ServicesNext]_servicesVars => [KafkaNext]_kafkaVars
    BY OneMoves, Zenon DEF StepsOfAll
  <2>3. QED
    BY <2>1, <2>2, PTL DEF ServicesSpec
<1>4. ServicesSpec => CollectorInit /\ [][CollectorNext]_coVars
  <2>1. ServicesInit => CollectorInit
    BY AllBegin, Zenon
  <2>2. [ServicesNext]_servicesVars => [CollectorNext]_coVars
    BY OneMoves, Zenon DEF StepsOfAll
  <2>3. QED
    BY <2>1, <2>2, PTL DEF ServicesSpec
<1>5. ServicesSpec => MetricInit /\ [][MetricNext]_metricVars
  <2>1. ServicesInit => MetricInit
    BY AllBegin, Zenon
  <2>2. [ServicesNext]_servicesVars => [MetricNext]_metricVars
    BY OneMoves, Zenon DEF StepsOfAll
  <2>3. QED
    BY <2>1, <2>2, PTL DEF ServicesSpec
<1>6. ServicesSpec => ObservableInit /\ [][ObservableNext]_obVars
  <2>1. ServicesInit => ObservableInit
    BY AllBegin, Zenon
  <2>2. [ServicesNext]_servicesVars => [ObservableNext]_obVars
    BY OneMoves, Zenon DEF StepsOfAll
  <2>3. QED
    BY <2>1, <2>2, PTL DEF ServicesSpec
<1>7. ServicesSpec => SqlInit /\ [][SqlNext]_txVars
  <2>1. ServicesInit => SqlInit
    BY AllBegin, Zenon
  <2>2. [ServicesNext]_servicesVars => [SqlNext]_txVars
    BY OneMoves, Zenon DEF StepsOfAll
  <2>3. QED
    BY <2>1, <2>2, PTL DEF ServicesSpec
<1>8. ServicesSpec => PoolInit /\ [][PoolNext]_poolVars
  <2>1. ServicesInit => PoolInit
    BY AllBegin, Zenon
  <2>2. [ServicesNext]_servicesVars => [PoolNext]_poolVars
    BY OneMoves, Zenon DEF StepsOfAll
  <2>3. QED
    BY <2>1, <2>2, PTL DEF ServicesSpec
<1>9. ServicesSpec => MatchingInit /\ [][MatchingNext]_matchVars
  <2>1. ServicesInit => MatchingInit
    BY AllBegin, Zenon
  <2>2. [ServicesNext]_servicesVars => [MatchingNext]_matchVars
    BY OneMoves, Zenon DEF StepsOfAll
  <2>3. QED
    BY <2>1, <2>2, PTL DEF ServicesSpec
<1>10. ServicesSpec => EvalInit /\ [][EvalNext]_evalVars
  <2>1. ServicesInit => EvalInit
    BY AllBegin, Zenon
  <2>2. [ServicesNext]_servicesVars => [EvalNext]_evalVars
    BY OneMoves, Zenon DEF StepsOfAll
  <2>3. QED
    BY <2>1, <2>2, PTL DEF ServicesSpec
<1>11. ServicesSpec => SqlFilterInit /\ [][SqlFilterNext]_filterVars
  <2>1. ServicesInit => SqlFilterInit
    BY AllBegin, Zenon
  <2>2. [ServicesNext]_servicesVars => [SqlFilterNext]_filterVars
    BY OneMoves, Zenon DEF StepsOfAll
  <2>3. QED
    BY <2>1, <2>2, PTL DEF ServicesSpec
<1>12. ServicesSpec => SqlPagesInit /\ [][SqlPagesNext]_<<openVars, pageVars>>
  <2>1. ServicesInit => SqlPagesInit
    BY AllBegin, Zenon
  <2>2. [ServicesNext]_servicesVars => [SqlPagesNext]_<<openVars, pageVars>>
    BY OneMoves, Zenon DEF StepsOfAll
  <2>3. QED
    BY <2>1, <2>2, PTL DEF ServicesSpec
<1>13. ServicesSpec => ErrorInit /\ [][ErrorNext]_errorVars
  <2>1. ServicesInit => ErrorInit
    BY AllBegin, Zenon
  <2>2. [ServicesNext]_servicesVars => [ErrorNext]_errorVars
    BY OneMoves, Zenon DEF StepsOfAll
  <2>3. QED
    BY <2>1, <2>2, PTL DEF ServicesSpec
<1>14. ServicesSpec => BuilderInit /\ [][BuilderNext]_builderVars
  <2>1. ServicesInit => BuilderInit
    BY AllBegin, Zenon
  <2>2. [ServicesNext]_servicesVars => [BuilderNext]_builderVars
    BY OneMoves, Zenon DEF StepsOfAll
  <2>3. QED
    BY <2>1, <2>2, PTL DEF ServicesSpec
<1>15. ServicesSpec => ProbeInit /\ [][ProbeNext]_probeVars
  <2>1. ServicesInit => ProbeInit
    BY AllBegin, Zenon
  <2>2. [ServicesNext]_servicesVars => [ProbeNext]_probeVars
    BY OneMoves, Zenon DEF StepsOfAll
  <2>3. QED
    BY <2>1, <2>2, PTL DEF ServicesSpec
<1>16. ServicesSpec => LogTextInit /\ [][LogTextNext]_logTextVars
  <2>1. ServicesInit => LogTextInit
    BY AllBegin, Zenon
  <2>2. [ServicesNext]_servicesVars => [LogTextNext]_logTextVars
    BY OneMoves, Zenon DEF StepsOfAll
  <2>3. QED
    BY <2>1, <2>2, PTL DEF ServicesSpec
<1>17. QED
  BY <1>1, <1>2, <1>3, <1>4, <1>5, <1>6, <1>7, <1>8,
     <1>9, <1>10, <1>11, <1>12, <1>13, <1>14, <1>15, <1>16

-----------------------------------------------------------------------------
(* The types of all components.                                            *)

LEMMA TypesOfClients ==
  ServicesSpec => [](/\ LogQueueTypeOK /\ KafkaTypeOK /\ CollectorTypeOK /\ MetricTypeOK
                     /\ ObservableTypeOK /\ SqlTypeOK /\ PoolTypeOK)
<1>1. /\ LogIInv => LogQueueTypeOK
      /\ KafkaIInv => KafkaTypeOK
      /\ CollectorIInv => CollectorTypeOK
      /\ SqlIInv => SqlTypeOK
  BY DEF LogIInv, KafkaIInv, ProducerIInv, CollectorIInv, SqlIInv
<1>2. MetricInit => MetricIInv
  BY MetricStart DEF MetricInit
<1>3. ServicesSpec => [](LogQueueTypeOK /\ KafkaTypeOK /\ CollectorTypeOK /\ SqlTypeOK)
  BY EachMoves, <1>1, LogInit, LogNextInv, KafkaInitIInv, KafkaNextIInv,
     CollectorInitInv, CollectorNextInv, SqlInitIInv, SqlNextIInv, PTL
<1>4. ServicesSpec => []MetricTypeOK
  BY EachMoves, <1>2, MetricNextInv, MetricGlobalsInit, MetricGlobalsKept, MetricTypes, PTL
<1>5. ServicesSpec => []ObservableTypeOK
  BY EachMoves, ObservableInitInv, ObservableNextInv, ObservableCountsInit,
     ObservableCountsKept, ObservableTypes, PTL
<1>6. ServicesSpec => []PoolTypeOK
  BY EachMoves, PoolInitInv, PoolNextInv, PoolCountsInit, PoolCountsKept, PoolTypes, PTL
<1>7. QED
  BY <1>3, <1>4, <1>5, <1>6, PTL

LEMMA TypesOfLibraries ==
  ServicesSpec => [](/\ SharedKvsTypeOK /\ MatchingTypeOK /\ EvalTypeOK
                     /\ SqlFilterTypeOK /\ SqlPagesTypeOK /\ ErrorTypeOK
                     /\ BuilderTypeOK /\ K8sProbeTypeOK /\ LogTextTypeOK)
<1>1. ServicesSpec => []SharedKvsTypeOK
  BY EachMoves, SharedInitInv, SharedNextInv, KvsCountsInit, KvsCountsKept, KvsTypes, PTL
<1>2. ServicesSpec => [](MatchingTypeOK /\ EvalTypeOK)
  BY EachMoves, MatchingTypesInit, MatchingTypesKept, EvalTypesInit, EvalTypesKept, PTL
<1>3. ServicesSpec => []SqlFilterTypeOK
  BY EachMoves, FilterInitInv, FilterKeeps, FilterLengthsInit, FilterLengthsKept,
     FilterTypes, PTL
<1>4. ServicesSpec => []SqlPagesTypeOK
  BY EachMoves, PagesInitInv, PagesKeep, PageBoundsInit, PageBoundsKept, PageTypes, PTL
<1>5. ServicesSpec => []ErrorTypeOK
  BY EachMoves, ErrorInitInv, ErrorNextInv, ErrorRangesInit, ErrorRangesKept, ErrorTypes, PTL
<1>6. ServicesSpec => []BuilderTypeOK
  BY EachMoves, BuilderInitInv, BuilderNextInv, BuilderPlacesInit, BuilderPlacesKept,
     BuilderTypes, PTL
<1>7. ServicesSpec => []K8sProbeTypeOK
  BY EachMoves, ProbeInitInv, ProbeNextInv, ProbeTypesOK, PTL
<1>8. LogTextInit => LogTextTypeOK
  BY DEF LogTextInit, LogTextTypeOK
<1>9. ServicesSpec => []LogTextTypeOK
  BY EachMoves, <1>8, LogTextTypesKept, PTL
<1>10. QED
  BY <1>1, <1>2, <1>3, <1>4, <1>5, <1>6, <1>7, <1>9, PTL

\* The log query, in a run that moves it or leaves it alone.
QueryOrRest == IF Rests("query") THEN tqAlone = {} ELSE QueryIInv /\ QueryCounts

LEMMA QueryInRun == ServicesSpec => []QueryOrRest
<1>1. ServicesInit => QueryOrRest
  BY AllBegin, QueryInitInv, QueryCountsInit DEF QueryOrRest
<1>2. QueryOrRest /\ [ServicesNext]_servicesVars => QueryOrRest'
  <2> SUFFICES ASSUME QueryOrRest, [ServicesNext]_servicesVars PROVE QueryOrRest'
    OBVIOUS
  <2>1. UNCHANGED part /\ [QueryNext]_queryVars /\ Rests("query")' = Rests("query")
    BY OneMoves DEF StepsOfAll, Rests
  <2>2. CASE Rests("query")
    <3>1. UNCHANGED tqAlone
      <4>1. part # "query"
        BY <2>2 DEF Rests
      <4>2. UNCHANGED queryVars
        BY <4>1 DEF ServicesNext, Moves, servicesVars, libraryVars
      <4>3. QED
        BY <4>2 DEF queryVars
    <3>2. QED
      BY <2>1, <2>2, <3>1 DEF QueryOrRest
  <2>3. CASE ~Rests("query")
    BY <2>1, <2>3, QueryKeeps, QueryCountsKept DEF QueryOrRest
  <2>4. QED
    BY <2>2, <2>3
<1>3. QED
  BY <1>1, <1>2, PTL DEF ServicesSpec

\* Every variable of the component that moves has its type, for any numbers of
\* goroutines, clients, events and calls, any capacities and any bounds.
THEOREM ServicesTypeCorrect == ServicesSpec => []ServicesTypeOK
<1>1. QueryOrRest => Rests("query") \/ QueryTypeOK
  BY QueryTypes DEF QueryOrRest
<1>2. ServicesSpec => [](Rests("query") \/ QueryTypeOK)
  BY QueryInRun, <1>1, PTL
<1>3. /\ LogQueueTypeOK /\ SharedKvsTypeOK /\ KafkaTypeOK /\ CollectorTypeOK
      /\ MetricTypeOK /\ ObservableTypeOK /\ SqlTypeOK /\ PoolTypeOK
      /\ MatchingTypeOK /\ EvalTypeOK /\ SqlFilterTypeOK /\ SqlPagesTypeOK
      /\ ErrorTypeOK /\ BuilderTypeOK /\ K8sProbeTypeOK /\ LogTextTypeOK
      /\ (Rests("query") \/ QueryTypeOK)
      => ServicesTypeOK
  BY DEF ServicesTypeOK
<1>4. QED
  BY TypesOfClients, TypesOfLibraries, <1>2, <1>3, PTL

\* What each component promises holds of the run: the invariants of the queues,
\* the loggers, the log's lines and queries, the kafka client, the observable, the
\* transactions, the SQL queries, the matchers, the errors and the builder, and
\* what no step of the metric collector, the observable, the redis pool and the
\* probes may do.
THEOREM ServicesAreSafe ==
  ServicesSpec =>
    /\ [](QueuesAccount /\ ShallowKept /\ QueryExact /\ LogDataKept /\ KafkaLifecycle)
    /\ [](OnceAtMostOnce /\ TransactionsSettled /\ SqlFaithful /\ ExpressionsCorrect)
    /\ [](ErrorsRecovered /\ CleansUp)
    /\ QuietAfterStop /\ RemovalExact /\ ScanDelsAll /\ AnswerIsTrue
<1>1. /\ LogIInv /\ CollectorIInv => QueuesAccount
      /\ ObservableIInv => OnceAtMostOnce
      /\ SqlIInv => TransactionsSettled
  <2>1. SqlIInv => TransactionsSettled
    BY DEF SqlIInv, CallFitsStep, TransactionsSettled, NilMeansCommitted, ConnectionReturned
  <2>2. QED
    BY <2>1, CollectorIInvSuffices DEF LogIInv, QueuesAccount, ObservableIInv, OnceAtMostOnce
<1>2. MetricInit => MetricIInv
  BY MetricStart DEF MetricInit
<1>3. QueryOrRest => QueryExact
  BY QueryIInvSuffices DEF QueryOrRest, QueryExact
<1>4. ServicesSpec => [](QueuesAccount /\ KafkaLifecycle)
  BY EachMoves, <1>1, LogInit, LogNextInv, CollectorInitInv, CollectorNextInv,
     KafkaInitIInv, KafkaNextIInv, KafkaIInvSuffices, PTL
<1>5. ServicesSpec => [](OnceAtMostOnce /\ TransactionsSettled)
  BY EachMoves, <1>1, ObservableInitInv, ObservableNextInv, SqlInitIInv, SqlNextIInv, PTL
<1>6. ServicesSpec => []QueryExact
  BY QueryInRun, <1>3, PTL
<1>7. ServicesSpec => []ShallowKept
  BY EachMoves, ShallowLoggersAreSafe, PTL DEF SharedKvsSpec
<1>8. ServicesSpec => []LogDataKept
  BY EachMoves, LogDataSurvives, PTL DEF LogTextSpec
<1>9. ServicesSpec => [](SqlFaithful /\ ExpressionsCorrect)
  BY EachMoves, QueriesAreFaithful, MatchersDecide, PTL
     DEF SqlFilterSpec, SqlPagesSpec, MatchingSpec, EvalSpec
<1>10. ServicesSpec => [](ErrorsRecovered /\ CleansUp)
  BY EachMoves, ErrorsAreRecovered, BuildCleansUp, PTL DEF ErrorSpec, BuilderSpec
<1>11. ServicesSpec => AnswerIsTrue
  BY EachMoves, AnswersAreTrue, PTL DEF ProbeSpec
<1>12. ServicesSpec => ScanDelsAll
  BY EachMoves, PoolInitInv, PoolNextInv, DeletesAllKept, PTL DEF ScanDelsAll, DeletesAll
<1>13. ServicesSpec => QuietAfterStop
  BY EachMoves, <1>2, MetricNextInv, QuietKept, PTL DEF QuietAfterStop, Quiet
<1>14. ServicesSpec => RemovalExact
  BY EachMoves, ObservableInitInv, ObservableNextInv, ExactKept, PTL DEF RemovalExact, Exact
<1>15. QED
  BY <1>4, <1>5, <1>6, <1>7, <1>8, <1>9, <1>10, <1>11, <1>12, <1>13, <1>14, PTL
=============================================================================
