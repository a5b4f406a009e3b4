---------------------------- MODULE MCServices -----------------------------
(***************************************************************************)
(* The clients and libraries of the toolkit for TLC.  They share no state, *)
(* so one run checks them side by side: part says which of them moves, the *)
(* others stay in one of their initial states, where nothing fair is       *)
(* enabled.                                                                *)
(***************************************************************************)
EXTENDS Queues, SharedKvs, KafkaClient, MetricCollector, Observable,
        SqlTransaction, RedisPool, LogQuery, EvalGen, SqlQueries, ErrorPool,
        AppBuilder, K8sProbe, LogText

CONSTANT Moving  \* the components the run lets move

VARIABLE part

lastingVars == <<lqVars, kafkaVars, coVars, metricVars, obVars, txVars, poolVars>>
libraryVars == <<kvVars, queryVars, matchVars, evalVars, filterVars, openVars,
                 pageVars, errorVars, builderVars, probeVars, logTextVars>>
servicesVars == <<part, lastingVars, libraryVars>>

Rests(name) == part # name
One(S) == CHOOSE e \in S : TRUE

\* A component that does not move needs one of its initial states only.
ServicesInit ==
  /\ part \in Moving
  /\ LogQueueInit /\ (Rests("queue") => lqKind = "kafka")
  /\ SqlInit /\ (Rests("transaction") => txTimeout)
  /\ PoolInit /\ (Rests("pool") => rpStore = {})
  /\ CollectorInit /\ (Rests("collector") => coConfig = Settings)
  /\ KafkaInit /\ MetricInit /\ ObservableInit
  /\ SharedKvsInit /\ (Rests("kvs") => kvKind = "core")
  /\ IF Rests("query") THEN tqFiles = One(Files) /\ QueryStart ELSE QueryInit
  /\ SqlFilterInit /\ (Rests("filter") => flRequest = [k \in DOMAIN flRequest |-> Absent])
  /\ BuilderInit /\ (Rests("builder") => abPlan = One(Plans))
  /\ MatchingInit /\ EvalInit /\ SqlPagesInit /\ ErrorInit /\ ProbeInit /\ LogTextInit

\* The component name takes a step and every other one stands still.
Moves(name, Step) ==
  /\ part = name /\ Step /\ UNCHANGED part
  /\ name # "queue" => UNCHANGED lqVars
  /\ name # "kvs" => UNCHANGED kvVars
  /\ name # "kafka" => UNCHANGED kafkaVars
  /\ name # "collector" => UNCHANGED coVars
  /\ name # "metric" => UNCHANGED metricVars
  /\ name # "observable" => UNCHANGED obVars
  /\ name # "transaction" => UNCHANGED txVars
  /\ name # "pool" => UNCHANGED poolVars
  /\ name # "query" => UNCHANGED queryVars
  /\ name # "matching" => UNCHANGED matchVars
  /\ name # "eval" => UNCHANGED evalVars
  /\ name # "filter" => UNCHANGED filterVars
  /\ name # "pages" => UNCHANGED <<openVars, pageVars>>
  /\ name # "errors" => UNCHANGED errorVars
  /\ name # "builder" => UNCHANGED builderVars
  /\ name # "probe" => UNCHANGED probeVars
  /\ name # "text" => UNCHANGED logTextVars

ServicesNext ==
  \/ Moves("queue", LogQueueNext)
  \/ Moves("kvs", SharedKvsNext)
  \/ Moves("kafka", KafkaNext)
  \/ Moves("collector", CollectorNext)
  \/ Moves("metric", MetricNext)
  \/ Moves("observable", ObservableNext)
  \/ Moves("transaction", SqlNext)
  \/ Moves("pool", PoolNext)
  \/ Moves("query", QueryNext)
  \/ Moves("matching", MatchingNext)
  \/ Moves("eval", EvalNext)
  \/ Moves("filter", SqlFilterNext)
  \/ Moves("pages", SqlPagesNext)
  \/ Moves("errors", ErrorNext)
  \/ Moves("builder", BuilderNext)
  \/ Moves("probe", ProbeNext)
  \/ Moves("text", LogTextNext)

ServicesSpec == ServicesInit /\ [][ServicesNext]_servicesVars

ServicesFairSpec ==
  /\ ServicesSpec
  /\ LogQueueFairness /\ KafkaFairness /\ CollectorFairness /\ MetricFairness
  /\ ObservableFairness /\ SqlFairness /\ PoolFairness

\* Every variable of the component that moves has its type.
ServicesTypeOK ==
  /\ Rests("queue") \/ LogQueueTypeOK
  /\ Rests("kvs") \/ SharedKvsTypeOK
  /\ Rests("kafka") \/ KafkaTypeOK
  /\ Rests("collector") \/ CollectorTypeOK
  /\ Rests("metric") \/ MetricTypeOK
  /\ Rests("observable") \/ ObservableTypeOK
  /\ Rests("transaction") \/ SqlTypeOK
  /\ Rests("pool") \/ PoolTypeOK
  /\ Rests("query") \/ QueryTypeOK
  /\ Rests("matching") \/ MatchingTypeOK
  /\ Rests("eval") \/ EvalTypeOK
  /\ Rests("filter") \/ SqlFilterTypeOK
  /\ Rests("pages") \/ SqlPagesTypeOK
  /\ Rests("errors") \/ ErrorTypeOK
  /\ Rests("builder") \/ BuilderTypeOK
  /\ Rests("probe") \/ K8sProbeTypeOK
  /\ Rests("text") \/ LogTextTypeOK

(***************************************************************************)
(* Liveness: calls that wait for a connection of a pool, of the database   *)
(* under a timeout or of redis, return, and a Trigger removes the Once     *)
(* callback it has called (db.go TransactionCtx, pool.go Conn, helpers.go  *)
(* dispatchEvents).                                                        *)
(***************************************************************************)
CallsComplete == TimedCallsEnd /\ CallsReturn /\ OnceLeaves
=============================================================================
