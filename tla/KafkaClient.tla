---------------------------- MODULE KafkaClient -----------------------------
(***************************************************************************)
(* kafka.Producer and kafka.Consumer (src/kafka).  Sarama is external: its *)
(* asynchronous producer takes messages from an input channel and reports  *)
(* each, delivered or failed, on one of two channels; Close asks it to     *)
(* stop, waits until nothing is in flight, closes the input and reads the  *)
(* errors that are left.  A consumer group's Consume returns at a          *)
(* rebalance, on an error, and at once when the group is closed.           *)
(***************************************************************************)
EXTENDS Integers, Sequences, FiniteSets

CONSTANTS
  Publishers,   \* goroutines that publish
  MaxPublish,   \* bound: messages
  MaxRuns       \* bound: calls of Consumer.Run

ASSUME KafkaAssumption == MaxPublish \in Nat /\ MaxRuns \in Nat \ {0}

VARIABLES
  kpClosed,     \* Producer.closed
  kpInput,      \* sarama's producer: open, stopping, closed
  kpClose,      \* Close: idle, set (closed is true), waiting, done
  kpPc,         \* kpPc[p]: idle, checked (about to send), refused, panicked
  kpLate,       \* publishers whose call began after Close had returned
  kpFlight,     \* messages sarama has accepted and not reported
  kpReported,   \* reports read by the loop of run or by Close
  kpErrors,     \* reports of failures waiting to be read
  kpNext,       \* the number of the next message
  kpRun         \* the goroutine of run

producerVars == <<kpClosed, kpInput, kpClose, kpPc, kpLate, kpFlight, kpReported,
                  kpErrors, kpNext, kpRun>>

VARIABLES
  kcLoops,      \* kcLoops[i]: the loop the i-th Run started
  kcCancelled,  \* loops whose context is done
  kcCancel,     \* Consumer.cancel: the loop it cancels, 0 for nil
  kcGroup,      \* the consumer group: open or closed
  kcRuns        \* calls of Run that started a loop

consumerVars == <<kcLoops, kcCancelled, kcCancel, kcGroup, kcRuns>>

KafkaTypeOK ==
  /\ kpClosed \in BOOLEAN /\ kpInput \in {"open", "stopping", "closed"}
  /\ kpClose \in {"idle", "set", "waiting", "done"}
  /\ kpPc \in [Publishers -> {"idle", "checked", "refused", "panicked"}]
  /\ kpLate \subseteq Publishers
  /\ kpFlight \cup kpReported \cup kpErrors \subseteq 1..MaxPublish
  /\ kcLoops \in [1..MaxRuns -> {"none", "consume", "sleep", "select", "done"}]
  /\ kcCancelled \subseteq 1..MaxRuns /\ kcCancel \in 0..MaxRuns
  /\ kcGroup \in {"open", "closed"} /\ kcRuns \in 0..MaxRuns

ProducerInit ==
  /\ kpClosed = FALSE /\ kpInput = "open" /\ kpClose = "idle"
  /\ kpPc = [p \in Publishers |-> "idle"]
  /\ kpLate = {} /\ kpFlight = {} /\ kpReported = {} /\ kpErrors = {} /\ kpNext = 1
  /\ kpRun = "run"

\* Publish, PublishString, PublishRawMsg: closed is read with no lock.
PublishCheck(p) ==
  /\ kpPc[p] = "idle"
  /\ kpPc' = [kpPc EXCEPT ![p] = IF kpClosed THEN "refused" ELSE "checked"]
  /\ kpLate' = IF kpClose = "done" THEN kpLate \cup {p} ELSE kpLate
  /\ UNCHANGED <<kpClosed, kpInput, kpClose, kpFlight, kpReported, kpErrors, kpNext, kpRun>>

\* Marshal failed: the call returns its error.
MarshalFails(p) ==
  /\ kpPc[p] = "checked"
  /\ kpPc' = [kpPc EXCEPT ![p] = "idle"]
  /\ UNCHANGED <<kpClosed, kpInput, kpClose, kpLate, kpFlight, kpReported, kpErrors, kpNext, kpRun>>

\* p.ap.Input() <- msg.  A producer that is stopping answers with an error, a
\* closed input panics.
PublishSend(p) ==
  /\ kpPc[p] = "checked"
  /\ IF kpInput = "closed"
     THEN /\ kpPc' = [kpPc EXCEPT ![p] = "panicked"]
          /\ UNCHANGED <<kpFlight, kpNext>>
     ELSE /\ kpNext <= MaxPublish
          /\ kpNext' = kpNext + 1
          /\ kpFlight' = kpFlight \cup {kpNext}
          /\ kpPc' = [kpPc EXCEPT ![p] = "idle"]
  /\ UNCHANGED <<kpClosed, kpInput, kpClose, kpLate, kpReported, kpErrors, kpRun>>

\* Sarama reports a message; successes are read by run (and by Close).
ReportSuccess(m) ==
  /\ m \in kpFlight
  /\ kpFlight' = kpFlight \ {m}
  /\ kpReported' = kpReported \cup {m}
  /\ UNCHANGED <<kpClosed, kpInput, kpClose, kpPc, kpLate, kpErrors, kpNext, kpRun>>

ReportError(m) ==
  /\ m \in kpFlight
  /\ kpFlight' = kpFlight \ {m}
  /\ kpErrors' = kpErrors \cup {m}
  /\ UNCHANGED <<kpClosed, kpInput, kpClose, kpPc, kpLate, kpReported, kpNext, kpRun>>

\* The loop of run: it reads reports until sarama closes their channels.
RunReads_returns(m) ==    \* fault: the loop returns after a failure
  /\ kpRun = "run" /\ m \in kpErrors
  /\ kpRun' = "ended"
  /\ kpErrors' = kpErrors \ {m}
  /\ kpReported' = kpReported \cup {m}
  /\ UNCHANGED <<kpClosed, kpInput, kpClose, kpPc, kpLate, kpFlight, kpNext>>
RunReads(m) ==
  /\ kpRun = "run" /\ m \in kpErrors
  /\ kpErrors' = kpErrors \ {m}
  /\ kpReported' = kpReported \cup {m}
  /\ UNCHANGED <<kpClosed, kpInput, kpClose, kpPc, kpLate, kpFlight, kpNext, kpRun>>

RunEnds_never == FALSE /\ UNCHANGED producerVars    \* fault: ok is not looked at
RunEnds ==
  /\ kpRun = "run" /\ kpInput = "closed"
  /\ kpRun' = "ended"
  /\ UNCHANGED <<kpClosed, kpInput, kpClose, kpPc, kpLate, kpFlight, kpReported,
                 kpErrors, kpNext>>

\* Producer.Close
SetClosed_forgets == UNCHANGED kpClosed    \* fault
SetClosed == kpClosed' = TRUE

CloseBegin ==
  /\ kpClose = "idle"
  /\ SetClosed
  /\ kpClose' = "set"
  /\ UNCHANGED <<kpInput, kpPc, kpLate, kpFlight, kpReported, kpErrors, kpNext, kpRun>>

CloseAsks ==
  /\ kpClose = "set"
  /\ kpInput' = "stopping" /\ kpClose' = "waiting"
  /\ UNCHANGED <<kpClosed, kpPc, kpLate, kpFlight, kpReported, kpErrors, kpNext, kpRun>>

\* AsyncProducer.Close reads the failures too, whoever comes first.
CloseReads(m) ==
  /\ kpClose = "waiting" /\ m \in kpErrors
  /\ kpErrors' = kpErrors \ {m}
  /\ kpReported' = kpReported \cup {m}
  /\ UNCHANGED <<kpClosed, kpInput, kpClose, kpPc, kpLate, kpFlight, kpNext, kpRun>>

\* Nothing in flight and every report read, by run or by Close itself.
CloseEnds ==
  /\ kpClose = "waiting" /\ kpFlight = {} /\ kpErrors = {}
  /\ kpInput' = "closed" /\ kpClose' = "done"
  /\ UNCHANGED <<kpClosed, kpPc, kpLate, kpFlight, kpReported, kpErrors, kpNext, kpRun>>

ProducerNext ==
  \/ \E p \in Publishers : PublishCheck(p) \/ MarshalFails(p) \/ PublishSend(p)
  \/ \E m \in 1..MaxPublish : ReportSuccess(m) \/ ReportError(m) \/ RunReads(m) \/ CloseReads(m)
  \/ RunEnds \/ CloseBegin \/ CloseAsks \/ CloseEnds

-----------------------------------------------------------------------------
ConsumerInit ==
  /\ kcLoops = [i \in 1..MaxRuns |-> "none"]
  /\ kcCancelled = {} /\ kcCancel = 0 /\ kcGroup = "open" /\ kcRuns = 0

MayRun_always == TRUE    \* fault: cancel is not looked at
MayRun == kcCancel = 0

\* Consumer.Run
ConsumerRun ==
  /\ MayRun /\ kcRuns < MaxRuns
  /\ kcRuns' = kcRuns + 1
  /\ kcLoops' = [kcLoops EXCEPT ![kcRuns + 1] = "consume"]
  /\ kcCancel' = kcRuns + 1
  /\ UNCHANGED <<kcCancelled, kcGroup>>

\* Consume is given the background context: it ends by itself or with the group.
ConsumeReturns(i) ==
  /\ kcLoops[i] = "consume"
  /\ \/ kcGroup = "open" /\ kcLoops' = [kcLoops EXCEPT ![i] = "select"]
     \/ kcLoops' = [kcLoops EXCEPT ![i] = "sleep"]
  /\ UNCHANGED <<kcCancelled, kcCancel, kcGroup, kcRuns>>

SleepEnds(i) ==
  /\ kcLoops[i] = "sleep"
  /\ kcLoops' = [kcLoops EXCEPT ![i] = "select"]
  /\ UNCHANGED <<kcCancelled, kcCancel, kcGroup, kcRuns>>

LoopSelect(i) ==
  /\ kcLoops[i] = "select"
  /\ kcLoops' = [kcLoops EXCEPT ![i] = IF i \in kcCancelled THEN "done" ELSE "consume"]
  /\ UNCHANGED <<kcCancelled, kcCancel, kcGroup, kcRuns>>

\* Consumer.Close
Cancelled_last == IF kcCancel = 0 THEN kcCancelled ELSE {kcCancel - 1}   \* fault: the loop before
Cancelled == IF kcCancel = 0 THEN kcCancelled ELSE kcCancelled \cup {kcCancel}

ConsumerClose ==
  /\ kcCancelled' = Cancelled
  /\ kcCancel' = 0 /\ kcGroup' = "closed"
  /\ UNCHANGED <<kcLoops, kcRuns>>

ConsumerNext ==
  \/ ConsumerRun \/ ConsumerClose
  \/ \E i \in 1..MaxRuns : ConsumeReturns(i) \/ SleepEnds(i) \/ LoopSelect(i)

-----------------------------------------------------------------------------
kafkaVars == <<producerVars, consumerVars>>
KafkaInit == ProducerInit /\ ConsumerInit
KafkaNext ==
  \/ ProducerNext /\ UNCHANGED consumerVars
  \/ ConsumerNext /\ UNCHANGED producerVars

\* Sarama answers for every message it took; goroutines that can run are
\* scheduled; a Consume on a closed group returns (one on an open group need not).
KafkaFairness ==
  /\ \A m \in 1..MaxPublish :
       /\ WF_kafkaVars(ReportSuccess(m) /\ UNCHANGED consumerVars)
       /\ WF_kafkaVars(RunReads(m) /\ UNCHANGED consumerVars)
       /\ WF_kafkaVars(CloseReads(m) /\ UNCHANGED consumerVars)
  /\ WF_kafkaVars(RunEnds /\ UNCHANGED consumerVars)
  /\ WF_kafkaVars(CloseAsks /\ UNCHANGED consumerVars)
  /\ WF_kafkaVars(CloseEnds /\ UNCHANGED consumerVars)
  /\ \A i \in 1..MaxRuns :
       /\ WF_kafkaVars(kcGroup = "closed" /\ ConsumeReturns(i) /\ UNCHANGED producerVars)
       /\ WF_kafkaVars(SleepEnds(i) /\ UNCHANGED producerVars)
       /\ WF_kafkaVars(LoopSelect(i) /\ UNCHANGED producerVars)

KafkaSpec == KafkaInit /\ [][KafkaNext]_kafkaVars /\ KafkaFairness

-----------------------------------------------------------------------------
\* Once Close has returned, a call to Publish is refused: the send on the closed
\* input hits only calls that had read closed before (producer.go Publish, Close).
LatePublishRefused ==
  \A p \in kpLate : kpPc[p] = "refused"

\* The goroutine of run reads the report of every message sarama took, failures
\* one after the other, with or without a Close (producer.go run).
ReportsRead == \A m \in 1..MaxPublish : []<>(m < kpNext => m \in kpReported)

\* Close returns, whatever fails and however many publishers are under way, every
\* message taken has then been reported, and run's goroutine ends (run, Close).
ProducerCloses ==
  []<>(kpClose # "idle" =>
         kpClose = "done" /\ kpReported = 1..(kpNext - 1) /\ kpRun = "ended")

\* At most one loop consumes without having been told to stop (consumer.go Run).
OneConsumerLoop ==
  \A i, j \in 1..MaxRuns :
    {kcLoops[i], kcLoops[j]} \subseteq {"consume", "sleep", "select"}
      /\ {i, j} \cap kcCancelled = {} => i = j

\* Close ends the loop that is running, though Consume never sees the context
\* that Close cancels (consumer.go Run, Close).
ConsumerLoopEnds ==
  \A i \in 1..MaxRuns :
    (kcCancel = i /\ kcGroup = "open") ~>
      ([](kcGroup = "open") \/ kcLoops[i] = "done")

(***************************************************************************)
(* A closed producer refuses, and Run and Close in any order leave at most *)
(* one loop that nobody stopped (producer.go Publish and Close,            *)
(* consumer.go Run and Close).                                             *)
(***************************************************************************)
KafkaLifecycle == LatePublishRefused /\ OneConsumerLoop

(***************************************************************************)
(* Liveness of both clients: every message taken is reported and read, and *)
(* Close of the producer and of the consumer end what they should          *)
(* (producer.go run and Close, consumer.go Run).                           *)
(***************************************************************************)
KafkaCloses == ReportsRead /\ ProducerCloses /\ ConsumerLoopEnds
=============================================================================
