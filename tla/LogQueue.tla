------------------------------ MODULE LogQueue ------------------------------
(***************************************************************************)
(* The queue behind the log hooks (src/log/hook).  Every goroutine that    *)
(* logs, through whatever core derived with With, offers its entry to one  *)
(* channel; one writer goroutine takes entries from it and hands them to   *)
(* kafka or posts them to a web hook.                                      *)
(*                                                                         *)
(* write never waits for room: at a full channel it aborts the new entry   *)
(* and empties the channel, looking at its length and receiving in two     *)
(* steps, so that it may wait for an entry that the writer took first and  *)
(* take a later one instead.                                               *)
(***************************************************************************)
EXTENDS Pipeline, FiniteSets

CONSTANTS
  LogWriters,   \* goroutines that log
  QueueLength,  \* CoreConfig.QueueLength
  MaxEntries    \* bound: entries logged

ASSUME LogQueueAssumption ==
  QueueLength \in Nat \ {0} /\ MaxEntries \in Nat

VARIABLES
  lqKind,     \* which core: kafka, or a web hook with method POST or GET
  lqQueue,    \* BaseCore.queue; an entry is its number, in order of arrival
  lqHand,     \* the entry the writer goroutine is working on, 0 for none
  lqPc,       \* lqPc[w]: idle, or where the emptying loop of write is
  lqSent,     \* entries delivered, in order
  lqLost,     \* entries received by an emptying loop, or that failed to encode
  lqAborted,  \* entries never queued
  lqNext,     \* the number of the next entry
  lqCrashed   \* the writer goroutine panicked and took the process with it

lqVars == <<lqKind, lqQueue, lqHand, lqPc, lqSent, lqLost, lqAborted, lqNext, lqCrashed>>

LogQueueTypeOK ==
  /\ lqKind \in {"kafka", "post", "get"}
  /\ lqQueue \in Seq(1..MaxEntries) /\ Len(lqQueue) <= QueueLength
  /\ lqHand \in 0..MaxEntries
  /\ lqPc \in [LogWriters -> {"idle", "look", "receive"}]
  /\ lqSent \in Seq(1..MaxEntries)
  /\ lqLost \subseteq 1..MaxEntries /\ lqAborted \subseteq 1..MaxEntries
  /\ lqNext \in 1..(MaxEntries + 1)
  /\ lqCrashed \in BOOLEAN

LogQueueInit ==
  /\ lqKind \in {"kafka", "post", "get"}
  /\ lqQueue = <<>> /\ lqHand = 0 /\ lqSent = <<>>
  /\ lqPc = [w \in LogWriters |-> "idle"]
  /\ lqLost = {} /\ lqAborted = {} /\ lqNext = 1 /\ lqCrashed = FALSE

\* BaseCore.write: the select with a default.
Offer(w) ==
  /\ ~lqCrashed /\ lqPc[w] = "idle" /\ lqNext <= MaxEntries
  /\ lqNext' = lqNext + 1
  /\ \/ /\ Len(lqQueue) < QueueLength
        /\ lqQueue' = Append(lqQueue, lqNext)
        /\ UNCHANGED <<lqPc, lqAborted>>
     \/ /\ Len(lqQueue) = QueueLength
        /\ lqAborted' = lqAborted \cup {lqNext}
        /\ lqPc' = [lqPc EXCEPT ![w] = "look"]
        /\ UNCHANGED lqQueue
  /\ UNCHANGED <<lqKind, lqHand, lqSent, lqLost, lqCrashed>>

\* for len(c.queue) != 0
LookAtLength(w) ==
  /\ ~lqCrashed /\ lqPc[w] = "look"
  /\ lqPc' = [lqPc EXCEPT ![w] = IF lqQueue = <<>> THEN "idle" ELSE "receive"]
  /\ UNCHANGED <<lqKind, lqQueue, lqHand, lqSent, lqLost, lqAborted, lqNext, lqCrashed>>

\* <-c.queue
ReceiveAndDrop(w) ==
  /\ ~lqCrashed /\ lqPc[w] = "receive" /\ lqQueue # <<>>
  /\ lqQueue' = Tail(lqQueue)
  /\ lqLost' = lqLost \cup {Head(lqQueue)}
  /\ lqPc' = [lqPc EXCEPT ![w] = "look"]
  /\ UNCHANGED <<lqKind, lqHand, lqSent, lqAborted, lqNext, lqCrashed>>

\* The goroutine of start.
TakeEntry ==
  /\ ~lqCrashed /\ lqHand = 0 /\ lqQueue # <<>>
  /\ lqHand' = Head(lqQueue)
  /\ lqQueue' = Tail(lqQueue)
  /\ UNCHANGED <<lqKind, lqPc, lqSent, lqLost, lqAborted, lqNext, lqCrashed>>

EntrySent ==
  /\ lqSent' = Append(lqSent, lqHand)
  /\ lqHand' = 0
  /\ UNCHANGED <<lqQueue, lqLost, lqCrashed>>

\* KafkaCore.writeData: an entry that does not encode is given up.
KafkaFails_panics ==      \* fault: panics instead, with no recover in writeData
  lqCrashed' = TRUE /\ UNCHANGED <<lqQueue, lqHand, lqSent, lqLost>>
KafkaFails_requeues ==    \* fault: put back at the end
  lqQueue' = Append(lqQueue, lqHand) /\ lqHand' = 0 /\ UNCHANGED <<lqSent, lqLost, lqCrashed>>
KafkaFails ==
  /\ lqLost' = lqLost \cup {lqHand}
  /\ lqHand' = 0
  /\ UNCHANGED <<lqQueue, lqSent, lqCrashed>>

KafkaWriteData ==
  /\ lqKind = "kafka"
  /\ EntrySent \/ KafkaFails

\* WebHookCore.write reads rsp.StatusCode: rsp is nil after a failed POST, and
\* with GET, which sends nothing.
WebHookWrite ==
  /\ lqKind \in {"post", "get"}
  /\ \/ lqKind = "post" /\ EntrySent
     \/ lqCrashed' = TRUE /\ UNCHANGED <<lqQueue, lqHand, lqSent, lqLost>>

WriteData ==
  /\ ~lqCrashed /\ lqHand # 0
  /\ KafkaWriteData \/ WebHookWrite
  /\ UNCHANGED <<lqKind, lqPc, lqAborted, lqNext>>

LogQueueNext ==
  \/ \E w \in LogWriters : Offer(w) \/ LookAtLength(w) \/ ReceiveAndDrop(w)
  \/ TakeEntry \/ WriteData

\* Goroutines that can run are scheduled; encoding and sarama's input finish.
LogQueueFairness ==
  /\ WF_lqVars(TakeEntry) /\ WF_lqVars(WriteData)
  /\ \A w \in LogWriters : WF_lqVars(LookAtLength(w)) /\ WF_lqVars(ReceiveAndDrop(w))

LogQueueSpec == LogQueueInit /\ [][LogQueueNext]_lqVars /\ LogQueueFairness

-----------------------------------------------------------------------------
\* What left the channel in order, is in hand, or waits is in order of arrival;
\* every entry logged is in exactly one place: delivered, in hand, waiting,
\* dropped after queueing or aborted (BaseCore.write, start, writeData).
LogAccounted ==
  LET line == Line(lqSent, lqHand, lqQueue)
  IN  /\ Ascending(line)
      /\ ToSet(line) \cup lqLost \cup lqAborted = 1..(lqNext - 1)
      /\ Len(line) + Cardinality(lqLost) + Cardinality(lqAborted) = lqNext - 1

\* What is logged through kafka's core does not stay queued or in the writer's
\* hands: it gets past entries that fail and past goroutines that empty the channel.
LogDrains ==
  \A e \in 1..MaxEntries :
    []<>(lqKind = "kafka" /\ e < lqNext => e \in ToSet(lqSent) \cup lqLost \cup lqAborted)
=============================================================================
