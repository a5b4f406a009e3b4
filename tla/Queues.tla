------------------------------- MODULE Queues -------------------------------
(***************************************************************************)
(* What the two bounded queues of the toolkit promise: the one behind the  *)
(* log hooks and the one of the message collector.  Each has many          *)
(* goroutines that put and one that takes; they share no state.            *)
(***************************************************************************)
EXTENDS LogQueue, MessageCollector

(***************************************************************************)
(* The bounded queues, of the log hooks and of the message collector,      *)
(* account for every entry they were offered: none is in two places, the   *)
(* log's entries keep their order, and the collector loses a message       *)
(* without a word only when it has no broker or no errorFunc               *)
(* (hook/core.go write, collector.go push, collect and publish).           *)
(***************************************************************************)
QueuesAccount == LogAccounted /\ PushedAccounted

(***************************************************************************)
(* Liveness: the same queues drain, and stopping the collector ends its    *)
(* goroutines (hook/core.go start, collector.go run, runTicker and stop).  *)
(***************************************************************************)
QueuesDrain == LogDrains /\ CollectorPublishes /\ StopEndsAll
=============================================================================
