--------------------------- MODULE MetricCollector --------------------------
(***************************************************************************)
(* The metric package (src/metric): Start reads its options into a global  *)
(* configuration, replaces the global exporter and registry, and starts a  *)
(* collector, whose loop gathers the registry at each tick and exports     *)
(* each family; the function Start returns stops it.  NewCounter,          *)
(* NewGauge, NewHistogram and NewSummary register in the global registry.  *)
(* The Prometheus registry and the OTLP exporter are external.  A gauge in *)
(* OTEL mode never returns from Set (module OtelGauge), so the loop of a   *)
(* collector that collects the runtime statistics stays there.             *)
(***************************************************************************)
EXTENDS Integers, FiniteSets

CONSTANTS
  MetricNames,   \* names the program registers
  MetricOptions, \* the options given to Start
  MaxStarts      \* bound: calls of Start

\* WithMode, WithStatsMetric and WithEndpoint, of a text or of the empty one.
Modes == {"log", "openobserve", "otel", "other"}
Options == Modes \cup {"stats", "endpoint", "noEndpoint"}

ASSUME MetricAssumption == MaxStarts \in Nat /\ MetricOptions \subseteq Options

VARIABLES
  mtConfig,      \* globalConfig: mode, stats (CollectStats), endpoint is set
  mtExporter,    \* exporter: its kind, and whether it is initialised (init)
  mtRegistry,    \* prometheusRegistry: the n-th one made, 0 for nil
  mtRegistered,  \* mtRegistered[r]: the names in registry r
  mtUsed,        \* the <<registry, name>> pairs with a child: something was recorded
  mtGauge,       \* runtimeGauge: nil, otel, prometheus
  mtStarts,      \* calls of Start
  mtLoop,        \* mtLoop[c]: the loop of the c-th Start's collector
  mtTick,        \* mtTick[c]: a tick waits in ticker.C
  mtLeft,        \* mtLeft[c]: the gathered families still to be exported
  mtStop,        \* mtStop[c]: the stop function: no, waiting (for wg), returned
  mtExported,    \* mtExported[c]: those exported in this round
  mtFailed,      \* mtFailed[c]: Gather or an export of this round failed
  mtPanic        \* a call panicked: the program is dead

globalVars == <<mtConfig, mtExporter, mtRegistry, mtRegistered, mtUsed, mtGauge, mtStarts>>
loopVars == <<mtLoop, mtTick, mtLeft, mtExported, mtFailed>>
metricVars == <<globalVars, loopVars, mtStop, mtPanic>>

Collectors == 1..MaxStarts
Manual == {"log", "openobserve"}
Runtime == "runtime"
LoopStates == {"none", "select", "export", "spin", "done"}
Families == Collectors \X MetricNames  \* those followed: not the runtime statistics

MetricTypeOK ==
  /\ mtConfig \in [mode : Modes, stats : BOOLEAN, endpoint : BOOLEAN]
  /\ mtExporter \in [kind : Modes \cup {"nil"}, init : BOOLEAN]
  /\ mtRegistry \in 0..MaxStarts
  /\ mtRegistered \in [Collectors -> SUBSET (MetricNames \cup {Runtime})]
  /\ mtGauge \in {"nil", "otel", "prometheus"}
  /\ mtStarts \in 0..MaxStarts /\ mtUsed \subseteq Families
  /\ mtLoop \in [Collectors -> LoopStates] /\ mtTick \in [Collectors -> BOOLEAN]
  /\ \A c \in Collectors : mtLeft[c] \subseteq Families /\ mtExported[c] \subseteq Families
  /\ mtStop \in [Collectors -> {"no", "waiting", "returned"}]
  /\ mtFailed \in [Collectors -> BOOLEAN]
  /\ mtPanic \in BOOLEAN

MetricInit ==
  /\ mtConfig = [mode |-> "otel", stats |-> FALSE, endpoint |-> FALSE]
  /\ mtExporter = [kind |-> "nil", init |-> FALSE]
  /\ mtRegistry = 0 /\ mtRegistered = [r \in Collectors |-> {}]
  /\ mtUsed = {} /\ mtGauge = "nil" /\ mtStarts = 0
  /\ mtLoop = [c \in Collectors |-> "none"] /\ mtTick = [c \in Collectors |-> FALSE]
  /\ mtLeft = [c \in Collectors |-> {}] /\ mtStop = [c \in Collectors |-> "no"]
  /\ mtExported = [c \in Collectors |-> {}] /\ mtFailed = [c \in Collectors |-> FALSE]
  /\ mtPanic = FALSE

\* A panic ends the process: nothing of its state is left.
Dies ==
  /\ mtPanic' = TRUE
  /\ mtConfig' = [mode |-> "otel", stats |-> FALSE, endpoint |-> FALSE]
  /\ mtExporter' = [kind |-> "nil", init |-> FALSE]
  /\ mtRegistry' = 0 /\ mtRegistered' = [r \in Collectors |-> {}]
  /\ mtUsed' = {} /\ mtGauge' = "nil" /\ mtStarts' = 0
  /\ mtLoop' = [c \in Collectors |-> "none"] /\ mtTick' = [c \in Collectors |-> FALSE]
  /\ mtLeft' = [c \in Collectors |-> {}] /\ mtStop' = [c \in Collectors |-> "no"]
  /\ mtExported' = [c \in Collectors |-> {}] /\ mtFailed' = [c \in Collectors |-> FALSE]

\* What the options given may leave of the configuration: none switches the
\* statistics off.
Configs ==
  [mode : (MetricOptions \cap Modes) \cup {mtConfig.mode},
   stats : {mtConfig.stats} \cup IF "stats" \in MetricOptions THEN {TRUE} ELSE {},
   endpoint : {mtConfig.endpoint} \cup {"endpoint" = option : option \in MetricOptions \cap {"endpoint", "noEndpoint"}}]

\* The exporters each mode may make, initialised (init) or not.
NewJSONLoggerExporter == {[kind |-> "log", init |-> TRUE]}
NewOpenobserveExporter(cfg) == {[kind |-> "openobserve", init |-> cfg.endpoint]}
NewOTELExporter == {[kind |-> "otel", init |-> ok] : ok \in BOOLEAN}

NewExporters(cfg) ==
  CASE cfg.mode = "log" -> NewJSONLoggerExporter
    [] cfg.mode = "openobserve" -> NewOpenobserveExporter(cfg)
    [] cfg.mode = "otel" -> NewOTELExporter

\* The globals Start leaves: they are replaced before anything is checked.
\* Without a logger the exporter and the registry of an earlier Start stay.
Globals(cfg, logger) ==
  IF logger /\ cfg.mode # "other"
  THEN NewExporters(cfg) \X {IF cfg.mode \in Manual THEN mtStarts + 1 ELSE mtRegistry}
  ELSE {<<mtExporter, mtRegistry>>}

\* registerStatsMetric registers a gauge in the Prometheus modes; MustRegister
\* panics on a name the registry has.
StatsInRegistry(cfg) == cfg.stats /\ cfg.mode \in Manual
StatsPanic(cfg, registry) ==
  StatsInRegistry(cfg) /\ (registry = 0 \/ Runtime \in mtRegistered[registry])

StatsGauge(cfg) ==
  CASE cfg.stats /\ cfg.mode = "otel" -> "otel"
    [] StatsInRegistry(cfg) -> "prometheus"
    [] OTHER -> mtGauge

\* Start(logger, options).  A nil exporter panics; an unsupported mode and an
\* exporter that is not initialised return an error, the globals replaced.
Start ==
  /\ ~mtPanic /\ mtStarts < MaxStarts
  /\ \E cfg \in Configs, logger \in BOOLEAN : \E g \in Globals(cfg, logger) :
       LET fails == (logger /\ cfg.mode = "other") \/ (g[1].kind # "nil" /\ ~g[1].init)
           nil == ~fails /\ g[1].kind = "nil"
       IN IF nil \/ (~fails /\ StatsPanic(cfg, g[2]))
          THEN Dies
          ELSE /\ mtConfig' = cfg /\ mtExporter' = g[1] /\ mtRegistry' = g[2]
               /\ mtStarts' = mtStarts + 1
               /\ mtGauge' = IF fails THEN mtGauge ELSE StatsGauge(cfg)
               /\ mtRegistered' = IF ~fails /\ StatsInRegistry(cfg)
                                  THEN [mtRegistered EXCEPT ![g[2]] = @ \cup {Runtime}]
                                  ELSE mtRegistered
               /\ mtLoop' = IF fails THEN mtLoop
                            ELSE [mtLoop EXCEPT ![mtStarts + 1] = "select"]
               /\ UNCHANGED <<mtUsed, mtTick, mtLeft, mtExported, mtFailed, mtStop, mtPanic>>

\* NewCounter, NewGauge, NewHistogram and NewSummary in a Prometheus mode; in the
\* other modes they make an OTLP instrument and touch nothing modelled here.
NewMetric(name) ==
  /\ ~mtPanic /\ mtConfig.mode \in Manual
  /\ \/ /\ mtRegistry = 0 \/ (mtRegistry # 0 /\ name \in mtRegistered[mtRegistry])
        /\ Dies
     \/ /\ mtRegistry # 0 /\ name \notin mtRegistered[mtRegistry]
        /\ mtRegistered' = [mtRegistered EXCEPT ![mtRegistry] = @ \cup {name}]
        /\ UNCHANGED <<mtConfig, mtExporter, mtRegistry, mtUsed, mtGauge, mtStarts,
                       loopVars, mtStop, mtPanic>>

\* Inc, Add, Set and Observe make the child of their label values, Gauge.Delete
\* takes it away; a Vec without children is in no gathered family.
UseMetric(r, name) ==
  /\ ~mtPanic /\ name \in mtRegistered[r]
  /\ mtUsed' \in {mtUsed \cup {<<r, name>>}, mtUsed \ {<<r, name>>}}
  /\ UNCHANGED <<mtConfig, mtExporter, mtRegistry, mtRegistered, mtGauge, mtStarts,
                 loopVars, mtStop, mtPanic>>

TickerFires(c) ==
  /\ ~mtPanic /\ mtLoop[c] \notin {"none", "done"} /\ mtStop[c] = "no"
  /\ mtTick' = [mtTick EXCEPT ![c] = TRUE]
  /\ UNCHANGED <<globalVars, mtLoop, mtLeft, mtExported, mtFailed, mtStop, mtPanic>>

GatherModes_log == {"log"}   \* fault: the ModeOpenObserve case is missing
GatherModes == Manual

\* collectRuntimeStats sets the runtime gauge; an OTEL gauge never returns from Set.
StatsSpin == mtConfig.stats /\ mtGauge = "otel"

\* case <-ticker.C: the runtime statistics, and then, in the modes that export by
\* hand, the global registry is gathered, and a nil one panics; an error of Gather
\* ends the round.  The gap between the two is not a step: both only read globals.
TakeTick(c, gathered) ==
  /\ ~mtPanic /\ mtLoop[c] = "select" /\ mtTick[c]
  /\ LET gathers == ~StatsSpin /\ mtConfig.mode \in GatherModes
     IN IF gathers /\ mtRegistry = 0
        THEN Dies
        ELSE /\ mtTick' = [mtTick EXCEPT ![c] = FALSE]
             /\ mtLoop' = [mtLoop EXCEPT ![c] = CASE StatsSpin -> "spin"
                                                  [] gathers /\ gathered -> "export"
                                                  [] OTHER -> "select"]
             /\ mtLeft' = [mtLeft EXCEPT ![c] = {f \in mtUsed : gathers /\ gathered /\ f[1] = mtRegistry}]
             /\ mtFailed' = [mtFailed EXCEPT ![c] = gathers /\ ~gathered]
             /\ UNCHANGED <<globalVars, mtExported, mtStop, mtPanic>>

\* exporter.Export(mf), through the exporter that is global at that moment; the
\* OTLP exporter's Export does nothing, an uninitialised one returns, and the
\* POST goes to the endpoint that is configured by now.  An export that fails is
\* logged and the next family is exported.
CanSend ==
  /\ mtExporter.init /\ mtExporter.kind \in Manual
  /\ mtExporter.kind = "openobserve" => mtConfig.endpoint

ExportFamily(c, f, sent) ==
  /\ ~mtPanic /\ mtLoop[c] = "export" /\ f \in mtLeft[c]
  /\ sent => CanSend
  /\ mtLeft' = [mtLeft EXCEPT ![c] = @ \ {f}]
  /\ mtExported' = IF sent THEN [mtExported EXCEPT ![c] = @ \cup {f}] ELSE mtExported
  /\ mtFailed' = [mtFailed EXCEPT ![c] = @ \/ ~sent]
  /\ UNCHANGED <<globalVars, mtLoop, mtTick, mtStop, mtPanic>>

EndRound(c) ==
  /\ ~mtPanic /\ mtLoop[c] = "export" /\ mtLeft[c] = {}
  /\ mtLoop' = [mtLoop EXCEPT ![c] = "select"]
  /\ mtExported' = [mtExported EXCEPT ![c] = {}] /\ mtFailed' = [mtFailed EXCEPT ![c] = FALSE]
  /\ UNCHANGED <<globalVars, mtTick, mtLeft, mtStop, mtPanic>>

\* case <-stopChan: wg.Done.
LoopEnds(c) ==
  /\ ~mtPanic /\ mtLoop[c] = "select" /\ mtStop[c] = "waiting"
  /\ mtLoop' = [mtLoop EXCEPT ![c] = "done"]
  /\ UNCHANGED <<globalVars, mtTick, mtLeft, mtExported, mtFailed, mtStop, mtPanic>>

\* The function Start returned: it closes stopChan, which panics the second time.
CallStop(c) ==
  /\ ~mtPanic /\ mtLoop[c] # "none"
  /\ IF mtStop[c] # "no"
     THEN Dies
     ELSE /\ mtStop' = [mtStop EXCEPT ![c] = "waiting"]
          /\ UNCHANGED <<globalVars, loopVars, mtPanic>>

StopReturn_nowait(c) ==    \* fault: no wg.Wait
  /\ ~mtPanic /\ mtStop[c] = "waiting"
  /\ mtStop' = [mtStop EXCEPT ![c] = "returned"]
  /\ UNCHANGED <<globalVars, loopVars, mtPanic>>

\* wg.Wait, then Shutdown of the exporter that is global by now.
StopReturn(c) ==
  /\ ~mtPanic /\ mtStop[c] = "waiting" /\ mtLoop[c] = "done"
  /\ mtStop' = [mtStop EXCEPT ![c] = "returned"]
  /\ UNCHANGED <<globalVars, loopVars, mtPanic>>

LoopStep(c) ==
  \/ \E gathered \in BOOLEAN : TakeTick(c, gathered)
  \/ \E f \in Families, sent \in BOOLEAN : ExportFamily(c, f, sent)
  \/ EndRound(c) \/ LoopEnds(c)

MetricNext ==
  \/ Start
  \/ \E name \in MetricNames : NewMetric(name) \/ \E r \in Collectors : UseMetric(r, name)
  \/ \E c \in Collectors : TickerFires(c) \/ LoopStep(c) \/ CallStop(c) \/ StopReturn(c)

\* The runtime runs each goroutine that can run; the ticker fires until it is
\* stopped.  Whether anyone calls Start, NewMetric, a metric or the stop function,
\* and whether Gather and exports fail, is open.
MetricFairness == \A c \in Collectors :
  WF_metricVars(LoopStep(c)) /\ WF_metricVars(TickerFires(c)) /\ WF_metricVars(StopReturn(c))

MetricSpec == MetricInit /\ [][MetricNext]_metricVars /\ MetricFairness

(***************************************************************************)
(* Once the stop function has returned (wg.Wait, metric.go:330), its       *)
(* collector's loop gathers and exports nothing more, whatever other       *)
(* collectors do with the shared exporter.                                 *)
(***************************************************************************)
QuietAfterStop == [][\A c \in Collectors : mtStop[c] = "returned" =>
                       \/ mtPanic'
                       \/ mtLoop'[c] = mtLoop[c]
                          /\ mtLeft'[c] = mtLeft[c] /\ mtLeft[c] = {}]_metricVars

(***************************************************************************)
(* Liveness: the stop function returns, unless the program panics or the   *)
(* loop is in the runtime gauge's Set (metric.go:170 in OTEL mode), where  *)
(* wg.Wait waits for ever.                                                 *)
(***************************************************************************)
StopReturns == \A c \in Collectors :
  []<>(mtStop[c] = "waiting" => mtPanic \/ mtLoop[c] = "spin")

\* Collector c runs and gathers registry r into an exporter that is initialised.
Collecting(c, r) ==
  /\ ~mtPanic /\ mtRegistry = r /\ mtConfig.mode \in Manual /\ CanSend
  /\ mtStop[c] = "no" /\ mtLoop[c] \notin {"none", "spin"}
  /\ ~StatsSpin

(***************************************************************************)
(* Liveness: a metric that is registered and stays recorded while a        *)
(* collector runs is exported again and again (metric.go:101-125), unless  *)
(* Gather or exports of that collector fail again and again: after a       *)
(* failure the next tick tries anew.  It is promised for as long as no     *)
(* other Start replaces registry, mode, exporter or endpoint and nobody    *)
(* stops the collector.                                                    *)
(***************************************************************************)
MetricsExported == \A c, r \in Collectors, name \in MetricNames :
  \/ []<>(<<r, name>> \in mtExported[c]) \/ []<>mtFailed[c]
  \/ []<>~(Collecting(c, r) /\ <<r, name>> \in mtUsed)

(***************************************************************************)
(* Liveness of the collector: it exports what is recorded while it runs,   *)
(* and stopping it returns (metric.go:101-125, 328-331).                   *)
(***************************************************************************)
MetricProgress == StopReturns /\ MetricsExported
=============================================================================
