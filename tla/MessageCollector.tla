-------------------------- MODULE MessageCollector --------------------------
(***************************************************************************)
(* The message collector (src/collector): a ticker goroutine per endpoint  *)
(* starts a goroutine per tick that pushes the endpoint's message on a     *)
(* bounded queue; the application pushes as well; one goroutine publishes  *)
(* to the broker.  Stop closes quit, which the publishing goroutine and    *)
(* the tickers see, and the goroutines of the last ticks do not.  Neither  *)
(* a broker nor an errorFunc has to be configured: without the one every   *)
(* message is discarded, without the other every failure is, in silence.   *)
(***************************************************************************)
EXTENDS Pipeline, FiniteSets

CONSTANTS
  Endpoints,      \* the endpoints of the configuration
  CollectorQueue, \* config.queueSize
  Uncoded,        \* the messages the configured codec cannot marshal
  MaxPushed       \* bound: messages

ASSUME CollectorAssumption == CollectorQueue \in Nat \ {0} /\ MaxPushed \in Nat

VARIABLES
  coConfig,    \* which of WithBroker and WithErrorFunc Start was given
  coQueue,     \* collector.queue: messages are numbered when they are made
  coTickers,   \* the endpoints whose ticker goroutine runs
  coTicks,     \* messages in the hands of a tick's goroutine, with their endpoint
  coRun,       \* run: select, publish, ended
  coHand,      \* the message being published, 0 for none
  coQuit,      \* quit is closed
  coSent,      \* messages handed to the broker
  coRefused,   \* pushes the application was told had failed
  coErrors,    \* messages whose failure errorFunc was told
  coLost,      \* messages dropped without telling anybody
  coEmpty,     \* messages the broker was handed without their content
  coNext       \* the number of the next message

coVars == <<coConfig, coQueue, coTickers, coTicks, coRun, coHand, coQuit, coSent,
            coRefused, coErrors, coLost, coEmpty, coNext>>

Settings == {"broker", "errorFunc"}

CollectorTypeOK ==
  /\ coQueue \in Seq(1..MaxPushed) /\ Len(coQueue) <= CollectorQueue
  /\ coTickers \subseteq Endpoints
  /\ coTicks \subseteq (1..MaxPushed) \X Endpoints
  /\ coRun \in {"select", "publish", "ended"} /\ coHand \in 0..MaxPushed
  /\ coQuit \in BOOLEAN /\ coNext \in 1..(MaxPushed + 1)
  /\ coSent \in Seq(1..MaxPushed) /\ coConfig \subseteq Settings
  /\ coRefused \cup coErrors \cup coLost \cup coEmpty \subseteq 1..MaxPushed

\* Start: newCollector, then run, which starts the tickers.
CollectorInit ==
  /\ coQueue = <<>> /\ coTicks = {} /\ coTickers = Endpoints
  /\ coRun = "select" /\ coHand = 0 /\ coQuit = FALSE
  /\ coSent = <<>> /\ coRefused = {} /\ coErrors = {} /\ coNext = 1
  /\ coLost = {} /\ coEmpty = {} /\ coConfig \in SUBSET Settings

\* <-ticker.C: go c.collect(ep)
Tick(e) ==
  /\ e \in coTickers /\ coNext <= MaxPushed
  /\ coTicks' = coTicks \cup {<<coNext, e>>}
  /\ coNext' = coNext + 1
  /\ UNCHANGED <<coQueue, coTickers, coRun, coHand, coQuit, coSent, coRefused, coErrors,
                 coLost, coEmpty, coConfig>>

TickerStops_last(e) ==    \* fault: quit is read as one value, not as closed
  /\ coQuit /\ coTickers = Endpoints
  /\ coTickers' = coTickers \ {e}
  /\ UNCHANGED <<coQueue, coTicks, coRun, coHand, coQuit, coSent, coRefused,
                 coErrors, coLost, coEmpty, coConfig, coNext>>
TickerStops(e) ==
  /\ e \in coTickers /\ coQuit
  /\ coTickers' = coTickers \ {e}
  /\ UNCHANGED <<coQueue, coTicks, coRun, coHand, coQuit, coSent, coRefused,
                 coErrors, coLost, coEmpty, coConfig, coNext>>

HasSpace_plusOne == Len(coQueue) <= CollectorQueue    \* fault: room for one more
HasSpace == Len(coQueue) < CollectorQueue

\* An error goes to errorFunc, and nowhere when there is none.
TellError_silent(m) == UNCHANGED <<coErrors, coLost>>    \* fault: the error is dropped
TellError(m) ==
  \/ "errorFunc" \in coConfig /\ coErrors' = coErrors \cup {m} /\ UNCHANGED coLost
  \/ "errorFunc" \notin coConfig /\ coLost' = coLost \cup {m} /\ UNCHANGED coErrors

\* collect: push, and an error when the queue is full.
Collect(m, e) ==
  /\ <<m, e>> \in coTicks
  /\ coTicks' = coTicks \ {<<m, e>>}
  /\ \/ HasSpace /\ coQueue' = Append(coQueue, m) /\ UNCHANGED <<coErrors, coLost>>
     \/ ~HasSpace /\ TellError(m) /\ UNCHANGED coQueue
  /\ UNCHANGED <<coTickers, coRun, coHand, coQuit, coSent, coRefused, coEmpty, coConfig, coNext>>

\* Push by the application
ApplicationPush ==
  /\ coNext <= MaxPushed
  /\ coNext' = coNext + 1
  /\ \/ HasSpace /\ coQueue' = Append(coQueue, coNext) /\ UNCHANGED coRefused
     \/ ~HasSpace /\ coRefused' = coRefused \cup {coNext} /\ UNCHANGED coQueue
  /\ UNCHANGED <<coTickers, coTicks, coRun, coHand, coQuit, coSent, coErrors, coLost, coEmpty,
                 coConfig>>

\* run's select: a message, or quit; with both ready either may win.
RunTakes ==
  /\ coRun = "select" /\ coQueue # <<>>
  /\ coHand' = Head(coQueue) /\ coQueue' = Tail(coQueue) /\ coRun' = "publish"
  /\ UNCHANGED <<coTickers, coTicks, coQuit, coSent, coRefused,
                 coErrors, coLost, coEmpty, coConfig, coNext>>

RunQuits ==
  /\ coRun = "select" /\ coQuit
  /\ coRun' = "ended"
  /\ UNCHANGED <<coQueue, coTickers, coTicks, coHand, coQuit, coSent, coRefused,
                 coErrors, coLost, coEmpty, coConfig, coNext>>

\* publish: the broker takes the message, with an empty body when the codec
\* fails, or refuses it; without a broker nothing is done with it.
Handed(m) ==
  /\ coSent' = Append(coSent, m)
  /\ coEmpty' = coEmpty \cup ({m} \cap Uncoded)
  /\ UNCHANGED <<coErrors, coLost>>

PublishMessage_returns ==    \* fault: the loop returns when the broker fails
  /\ coRun = "publish" /\ TellError(coHand)
  /\ coHand' = 0 /\ coRun' = "ended"
  /\ UNCHANGED <<coQueue, coTickers, coTicks, coQuit, coSent, coRefused, coEmpty,
                 coConfig, coNext>>
PublishMessage ==
  /\ coRun = "publish"
  /\ \/ "broker" \in coConfig /\ Handed(coHand)
     \/ "broker" \in coConfig /\ TellError(coHand) /\ UNCHANGED <<coSent, coEmpty>>
     \/ /\ "broker" \notin coConfig /\ coLost' = coLost \cup {coHand}
        /\ UNCHANGED <<coErrors, coSent, coEmpty>>
  /\ coHand' = 0 /\ coRun' = "select"
  /\ UNCHANGED <<coQueue, coTickers, coTicks, coQuit, coRefused, coConfig, coNext>>

\* Stop: quitOnce guards the close.
CollectorStop ==
  /\ coQuit' = TRUE
  /\ UNCHANGED <<coQueue, coTickers, coTicks, coRun, coHand, coSent, coRefused,
                 coErrors, coLost, coEmpty, coConfig, coNext>>

CollectorNext ==
  \/ \E e \in Endpoints : Tick(e) \/ TickerStops(e) \/ \E m \in 1..MaxPushed : Collect(m, e)
  \/ ApplicationPush \/ RunTakes \/ RunQuits \/ PublishMessage \/ CollectorStop

\* Goroutines that can run are scheduled, the broker answers, and a select with
\* several ready cases picks at random.
CollectorFairness ==
  /\ WF_coVars(RunTakes) /\ SF_coVars(RunQuits) /\ WF_coVars(PublishMessage)
  /\ \A e \in Endpoints :
       SF_coVars(TickerStops(e)) /\ \A m \in 1..MaxPushed : WF_coVars(Collect(m, e))

CollectorSpec == CollectorInit /\ [][CollectorNext]_coVars /\ CollectorFairness

-----------------------------------------------------------------------------
\* A broker and an errorFunc are configured.
FullyConfigured == coConfig = Settings

\* Every message is in one place: with the broker, in hand, queued, with a tick,
\* refused to its caller, told to errorFunc, or lost; and only a collector
\* without a broker or without an errorFunc loses one.  The broker is handed a
\* message without its content only when the codec failed, which nobody is
\* told (push, collect, publish).
PushedAccounted ==
  LET line == Line(coSent, coHand, coQueue)
      gone == coRefused \cup (coErrors \cup coLost)
      held == {t[1] : t \in coTicks}
  IN  /\ ToSet(line) \cup gone \cup held = 1..(coNext - 1)
      /\ Len(line) + Cardinality(gone) + Cardinality(coTicks) = coNext - 1
      /\ FullyConfigured => coLost = {}
      /\ coEmpty \subseteq ToSet(coSent) \cap Uncoded

\* While nobody stops the collector a message does not stay queued or in the
\* publisher's hands (PushedAccounted says where it goes); what is queued when
\* quit wins the select is never published.
CollectorPublishes ==
  \A m \in 1..MaxPushed : []<>(coQuit \/ m \notin ToSet(coQueue) \cup {coHand})

\* Stop ends the publishing goroutine and every ticker, though the queue keeps
\* filling while they race with quit (run, runTicker, stop).
StopEndsAll == []<>(coQuit => coRun = "ended" /\ coTickers = {} /\ coTicks = {})
=============================================================================
