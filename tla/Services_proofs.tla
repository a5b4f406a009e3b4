-------------------------- MODULE Services_proofs ---------------------------
(***************************************************************************)
(* Proofs about the clients and services of the toolkit, one part each:    *)
(* the redis pool, the metric collector, the probe manager, the coded      *)
(* errors, the application builder, the kafka client, the transactions,    *)
(* the observable and the bounded queues.  They share no state.            *)
(***************************************************************************)
EXTENDS RedisPool, MetricCollector, K8sProbe, ErrorPool, AppBuilder,
        KafkaClient, SqlTransaction, Observable, Queues, Pipeline_proofs, FiniteSetTheorems

-----------------------------------------------------------------------------
(* RedisPool: ScanDels deletes what was there all along.                   *)

PoolCalls == [op : Ops \cup {"none", "failed"}, key : Nat, step : {"idle", "wait", "do", "exec"},
              iter : 0..KeyCount, keys : SUBSET Keys]

\* A scan has found, of the keys there since it began, those its cursor passed;
\* with the cursor back at 0 it has found them all.
Scanned(c) ==
  LET call == rpCall[c]
  IN  /\ call.step = "idle" => call.op \in {"none", "failed"}
      /\ call.step # "idle" => call.key \in Keys
      /\ call.step = "wait" => call.iter = 0
      /\ call.step \in {"do", "exec"} => rpSince[c] \subseteq rpStore
      /\ call.step = "do" => \A k \in rpSince[c] : k <= call.iter => k \in call.keys
      /\ call.step = "exec" => rpSince[c] \subseteq call.keys

PoolIInv ==
  /\ rpStore \subseteq Keys
  /\ rpCall \in [Clients -> PoolCalls] /\ rpSince \in [Clients -> SUBSET Keys]
  /\ \A c \in Clients : Scanned(c)

LEMMA PoolInitInv == PoolInit => PoolIInv
BY PoolAssumption DEF PoolInit, PoolIInv, PoolCalls, NoCall, Scanned, Keys

\* What a command of any client does to the keys that a scan relies on.
LEMMA StoreKeeps ==
  ASSUME PoolIInv, NEW new \in SUBSET Keys,
         Store(new) \/ UNCHANGED <<rpStore, rpSince>>
  PROVE  /\ rpStore' \subseteq Keys /\ rpSince' \in [Clients -> SUBSET Keys]
         /\ \A c \in Clients : /\ rpSince'[c] \subseteq rpSince[c]
                               /\ rpSince[c] \subseteq rpStore => rpSince'[c] \subseteq rpStore'
BY DEF PoolIInv, Store

\* A call that returns leaves the others where they were.
LEMMA ReturnKeeps ==
  ASSUME PoolIInv, NEW c \in Clients, NEW result \in {"none", "failed"}, Return(c, result),
         rpStore' \subseteq Keys, rpSince' \in [Clients -> SUBSET Keys],
         \A d \in Clients : /\ rpSince'[d] \subseteq rpSince[d]
                            /\ rpSince[d] \subseteq rpStore => rpSince'[d] \subseteq rpStore'
  PROVE  PoolIInv'
<1>1. rpCall' = [rpCall EXCEPT ![c] = [NoCall EXCEPT !.op = result]]
  BY DEF Return
<1>2. [NoCall EXCEPT !.op = result] \in PoolCalls
  BY PoolAssumption DEF NoCall, PoolCalls
<1>3. rpCall' \in [Clients -> PoolCalls]
  BY <1>1, <1>2 DEF PoolIInv
<1>4. ASSUME NEW d \in Clients PROVE Scanned(d)'
  <2>1. CASE d = c
    <3>1. rpCall'[d] = [NoCall EXCEPT !.op = result]
      BY <1>1, <2>1 DEF PoolIInv
    <3>2. rpCall'[d].step = "idle" /\ rpCall'[d].op = result
      BY <3>1 DEF NoCall
    <3>3. QED
      BY <3>2 DEF Scanned
  <2>2. CASE d # c
    <3>1. rpCall'[d] = rpCall[d]
      BY <1>1, <2>2 DEF PoolIInv
    <3>2. Scanned(d)
      BY DEF PoolIInv
    <3>3. QED
      BY <3>1, <3>2 DEF Scanned
  <2>3. QED
    BY <2>1, <2>2
<1>5. QED
  BY <1>3, <1>4 DEF PoolIInv

LEMMA CallInv ==
  ASSUME PoolIInv, NEW c \in Clients, NEW op \in Ops, NEW key \in Keys, Call(c, op, key)
  PROVE  PoolIInv'
<1> DEFINE call == [NoCall EXCEPT !.op = op, !.key = key, !.step = "wait"]
<1>1. /\ rpCall' = [rpCall EXCEPT ![c] = call] /\ UNCHANGED <<rpStore, rpSince>>
  BY DEF Call
<1>2. key \in Nat /\ 0 \in 0..KeyCount /\ key \in Keys
  BY PoolAssumption DEF Keys
<1>3. NoCall \in PoolCalls /\ NoCall.iter = 0
  BY <1>2 DEF NoCall, PoolCalls
<1>4. call \in PoolCalls /\ call.step = "wait" /\ call.iter = 0 /\ call.key \in Keys
  BY <1>2, <1>3 DEF PoolCalls
<1> HIDE DEF call
<1>5. rpCall' \in [Clients -> PoolCalls]
  BY <1>1, <1>4 DEF PoolIInv
<1>6. ASSUME NEW d \in Clients PROVE Scanned(d)'
  <2>1. CASE d = c
    <3>1. rpCall'[d] = call
      BY <1>1, <2>1 DEF PoolIInv
    <3>2. QED
      BY <1>4, <3>1 DEF Scanned
  <2>2. CASE d # c
    <3>1. rpCall'[d] = rpCall[d] /\ rpSince'[d] = rpSince[d] /\ Scanned(d)
      BY <1>1, <2>2 DEF PoolIInv
    <3>2. QED
      BY <1>1, <3>1 DEF Scanned
  <2>3. QED
    BY <2>1, <2>2
<1>7. QED
  BY <1>1, <1>5, <1>6 DEF PoolIInv

LEMMA GetConnInv ==
  ASSUME PoolIInv, NEW c \in Clients, GetConn(c)
  PROVE  PoolIInv'
<1>1. /\ rpCall[c].step = "wait" /\ rpCall' = [rpCall EXCEPT ![c].step = "do"]
      /\ rpSince' = [rpSince EXCEPT ![c] = rpStore] /\ UNCHANGED rpStore
  BY DEF GetConn
<1>2. rpCall' \in [Clients -> PoolCalls] /\ rpSince' \in [Clients -> SUBSET Keys]
  BY <1>1 DEF PoolIInv, PoolCalls
<1>3. ASSUME NEW d \in Clients PROVE Scanned(d)'
  <2>1. CASE d = c
    <3>1. rpCall[d].iter = 0 /\ rpCall[d].key \in Keys
      BY <1>1, <2>1 DEF PoolIInv, Scanned
    <3>2. /\ rpCall'[d].step = "do" /\ rpCall'[d].iter = 0 /\ rpCall'[d].key \in Keys
          /\ rpSince'[d] = rpStore
      BY <1>1, <2>1, <3>1 DEF PoolIInv, PoolCalls
    <3>3. \A k \in rpStore : ~(k <= 0)
      BY PoolAssumption DEF PoolIInv, Keys
    <3>4. QED
      BY <1>1, <3>2, <3>3 DEF Scanned
  <2>2. CASE d # c
    <3>1. rpCall'[d] = rpCall[d] /\ rpSince'[d] = rpSince[d] /\ Scanned(d)
      BY <1>1, <2>2 DEF PoolIInv
    <3>2. QED
      BY <1>1, <3>1 DEF Scanned
  <2>3. QED
    BY <2>1, <2>2
<1>4. QED
  BY <1>1, <1>2, <1>3 DEF PoolIInv

LEMMA ScanBatchInv ==
  ASSUME PoolIInv, NEW c \in Clients, ScanBatch(c)
  PROVE  PoolIInv'
<1>1. /\ rpCall[c].step = "do" /\ UNCHANGED <<rpStore, rpSince>>
  BY DEF ScanBatch
<1>2. /\ rpCall \in [Clients -> PoolCalls] /\ rpCall[c] \in PoolCalls
      /\ rpStore \subseteq Keys /\ rpSince[c] \subseteq rpStore /\ rpCall[c].key \in Keys
      /\ \A k \in rpSince[c] : k <= rpCall[c].iter => k \in rpCall[c].keys
  BY <1>1 DEF PoolIInv, Scanned
<1>3. rpCall[c].iter \in Nat /\ rpCall[c].keys \subseteq Keys /\ KeyCount \in Nat
  BY <1>2, PoolAssumption DEF PoolCalls
<1>4. PICK next \in (rpCall[c].iter + 1)..KeyCount :
        rpCall' = [rpCall EXCEPT
          ![c].iter = IF next = KeyCount THEN 0 ELSE next,
          ![c].keys = Found(@, {k \in rpStore : rpCall[c].iter < k /\ k <= next}),
          ![c].step = IF next = KeyCount THEN "exec" ELSE "do"]
  BY DEF ScanBatch
<1>5. next \in Nat /\ next <= KeyCount
  <2>1. \A a, b \in Nat : \A x \in (a + 1)..b : x \in Nat /\ x <= b
    OBVIOUS
  <2>2. QED
    BY <1>3, <2>1
<1>6. PICK keys \in SUBSET Keys :
        keys = rpCall[c].keys \cup {k \in rpStore : rpCall[c].iter < k /\ k <= next}
  BY <1>2, <1>3
<1>7. PICK call : call = [rpCall[c] EXCEPT !.iter = IF next = KeyCount THEN 0 ELSE next,
                                            !.keys = keys,
                                            !.step = IF next = KeyCount THEN "exec" ELSE "do"]
  OBVIOUS
<1>8. rpCall' = [rpCall EXCEPT ![c] = call]
  BY <1>4, <1>6, <1>7 DEF Found
<1>9. /\ call.iter = IF next = KeyCount THEN 0 ELSE next
      /\ call.keys = keys
      /\ call.step = IF next = KeyCount THEN "exec" ELSE "do"
      /\ call.key = rpCall[c].key
      /\ call \in PoolCalls
  <2>1. PICK i \in 0..KeyCount, t \in {"exec", "do"} :
          /\ i = IF next = KeyCount THEN 0 ELSE next
          /\ t = IF next = KeyCount THEN "exec" ELSE "do"
    BY <1>3, <1>5
  <2>2. call = [rpCall[c] EXCEPT !.iter = i, !.keys = keys, !.step = t]
    BY <1>7, <2>1
  <2>3. call.iter = i /\ call.keys = keys /\ call.step = t /\ call.key = rpCall[c].key /\ call \in PoolCalls
    BY <1>2, <2>2 DEF PoolCalls
  <2>4. QED
    BY <2>1, <2>3
<1>10. rpCall' \in [Clients -> PoolCalls] /\ rpCall'[c] = call
  BY <1>2, <1>8, <1>9
<1>11. \A k \in rpSince[c] : k <= next => k \in keys
  <2>1. ASSUME NEW k \in rpSince[c], k <= next PROVE k \in keys
    <3>0. k \in rpStore /\ k \in Keys
      BY <1>2
    <3>1. k \in Int /\ k \in rpStore
      BY <3>0 DEF Keys
    <3>2. k <= rpCall[c].iter \/ rpCall[c].iter < k
      BY <1>3, <3>1
    <3>3. QED
      BY <1>2, <1>6, <2>1, <3>1, <3>2
  <2>2. QED
    BY <2>1
<1>12. Scanned(c)'
  <2>1. CASE next = KeyCount
    <3>0. \A k \in Keys : k <= next
      BY <2>1, PoolAssumption DEF Keys
    <3>1. \A k \in rpSince[c] : k <= next
      BY <1>2, <3>0
    <3>2. rpSince[c] \subseteq keys
      BY <1>11, <3>1
    <3>3. rpCall'[c].step = "exec" /\ rpCall'[c].key \in Keys /\ rpCall'[c].keys = keys
      BY <1>2, <1>9, <1>10, <2>1
    <3>4. QED
      BY <1>1, <1>2, <3>2, <3>3 DEF Scanned
  <2>2. CASE next # KeyCount
    <3>1. /\ rpCall'[c].step = "do" /\ rpCall'[c].key \in Keys /\ rpCall'[c].keys = keys
          /\ rpCall'[c].iter = next
      BY <1>2, <1>9, <1>10, <2>2
    <3>2. QED
      BY <1>1, <1>2, <1>11, <3>1 DEF Scanned
  <2>3. QED
    BY <2>1, <2>2
<1>13. ASSUME NEW d \in Clients, d # c PROVE Scanned(d)'
  <2>1. rpCall'[d] = rpCall[d] /\ rpSince'[d] = rpSince[d] /\ Scanned(d)
    BY <1>1, <1>2, <1>8, <1>13 DEF PoolIInv
  <2>2. QED
    BY <1>1, <2>1 DEF Scanned
<1>14. QED
  BY <1>1, <1>10, <1>12, <1>13 DEF PoolIInv

LEMMA CommandInv ==
  ASSUME PoolIInv, NEW c \in Clients, Command(c)
  PROVE  PoolIInv'
<1>1. /\ Return(c, "none") /\ rpCall[c].step = "do"
      /\ WriteCommand(c) \/ DelCommand(c) \/ ReadCommand(c)
  BY DEF Command
<1>2. rpCall[c].key \in Keys /\ rpStore \subseteq Keys
  BY <1>1 DEF PoolIInv, Scanned
<1>3. \E new \in SUBSET Keys : Store(new) \/ UNCHANGED <<rpStore, rpSince>>
  <2>1. rpStore \cup {rpCall[c].key} \in SUBSET Keys /\ rpStore \ {rpCall[c].key} \in SUBSET Keys
    BY <1>2
  <2>2. QED
    BY <1>1, <2>1 DEF WriteCommand, DelCommand, ReadCommand
<1>4. QED
  BY <1>1, <1>3, StoreKeeps, ReturnKeeps

LEMMA ExecKeysInv ==
  ASSUME PoolIInv, NEW c \in Clients, ExecKeys(c)
  PROVE  PoolIInv'
<1>1. /\ Return(c, "none")
      /\ Store(rpStore \ rpCall[c].keys) \/ UNCHANGED <<rpStore, rpSince>>
  BY DEF ExecKeys
<1>2. rpStore \ rpCall[c].keys \in SUBSET Keys
  BY DEF PoolIInv
<1>3. QED
  BY <1>1, <1>2, StoreKeeps, ReturnKeeps

LEMMA PoolNextInv == PoolIInv /\ [PoolNext]_poolVars => PoolIInv'
<1> SUFFICES ASSUME PoolIInv, [PoolNext]_poolVars PROVE PoolIInv'
  OBVIOUS
<1>1. ASSUME UNCHANGED <<rpStore, rpCall, rpSince>> PROVE PoolIInv'
  BY <1>1 DEF PoolIInv, Scanned
<1>2. CASE InitPool \/ ScriptFails \/ InitEnds \/ SubGets \/ SubReconnects \/ UNCHANGED poolVars
  BY <1>1, <1>2 DEF InitPool, ScriptFails, InitEnds, SubGets, SubReconnects, poolVars
<1>3. ASSUME NEW c \in Clients, ScanFails(c) PROVE PoolIInv'
  <2>1. Return(c, "failed") /\ UNCHANGED <<rpStore, rpSince>>
    BY <1>3 DEF ScanFails
  <2>2. rpStore \in SUBSET Keys
    BY DEF PoolIInv
  <2>3. QED
    BY <2>1, <2>2, StoreKeeps, ReturnKeeps
<1>4. QED
  BY <1>2, <1>3, CallInv, GetConnInv, CommandInv, ScanBatchInv, ExecKeysInv
     DEF PoolNext, CallStep

LEMMA PoolInvariance == PoolSpec => []PoolIInv
BY PoolInitInv, PoolNextInv, PTL DEF PoolSpec

\* What a step does when a ScanDels returns.
DeletesAll == \A c \in Clients :
  (rpCall[c].op = "scanDels" /\ rpCall'[c].op = "none") => rpStore' \cap rpSince[c] = {}

\* A ScanDels that returns has deleted the keys the store held all along.
LEMMA DeletesAllKept == PoolIInv /\ [PoolNext]_poolVars => [DeletesAll]_poolVars
<1> SUFFICES ASSUME PoolIInv, PoolNext, NEW c \in Clients,
                    rpCall[c].op = "scanDels", rpCall'[c].op = "none"
             PROVE  rpStore' \cap rpSince[c] = {}
  BY DEF DeletesAll
<1>1. rpCall \in [Clients -> PoolCalls] /\ Scanned(c) /\ rpCall[c].step # "idle"
  BY DEF PoolIInv, Scanned
<1>2. ASSUME NEW d \in Clients, NEW call, rpCall' = [rpCall EXCEPT ![d] = call]
      PROVE  d = c
  BY <1>1, <1>2
<1>3. CASE ExecKeys(c)
  <2>1. rpStore' = rpStore \ rpCall[c].keys /\ rpSince[c] \subseteq rpCall[c].keys
    BY <1>1, <1>3 DEF ExecKeys, Store, Scanned
  <2>2. QED
    BY <2>1
<1>4. ExecKeys(c)
  <2>1. ~(InitPool \/ ScriptFails \/ InitEnds \/ SubGets \/ SubReconnects)
    BY DEF InitPool, ScriptFails, InitEnds, SubGets, SubReconnects
  <2>2. PICK d \in Clients : CallStep(d) \/ \E op \in Ops, key \in Keys : Call(d, op, key)
    BY <2>1 DEF PoolNext
  <2>3. ~Command(c) /\ ~ScanFails(c) /\ ~(\E op \in Ops, key \in Keys : Call(c, op, key))
    <3>1. ~Command(c)
      BY DEF Command, WriteCommand, DelCommand, ReadCommand
    <3>2. ASSUME ScanFails(c) PROVE FALSE
      <4>1. rpCall' = [rpCall EXCEPT ![c] = [NoCall EXCEPT !.op = "failed"]]
        BY <3>2 DEF ScanFails, Return
      <4>2. rpCall'[c].op = "failed"
        BY <1>1, <4>1 DEF NoCall
      <4>3. QED
        BY <4>2
    <3>3. QED
      BY <1>1, <3>1, <3>2 DEF Call
  <2>4. ~GetConn(c) /\ ~ScanBatch(c)
    <3>1. ASSUME GetConn(c) PROVE FALSE
      <4>1. rpCall' = [rpCall EXCEPT ![c].step = "do"]
        BY <3>1 DEF GetConn
      <4>2. rpCall'[c].op = rpCall[c].op
        BY <1>1, <4>1 DEF PoolCalls
      <4>3. QED
        BY <4>2
    <3>2. ASSUME ScanBatch(c) PROVE FALSE
      <4>1. PICK next \in (rpCall[c].iter + 1)..KeyCount :
              rpCall' = [rpCall EXCEPT
                ![c].iter = IF next = KeyCount THEN 0 ELSE next,
                ![c].keys = Found(@, {k \in rpStore : rpCall[c].iter < k /\ k <= next}),
                ![c].step = IF next = KeyCount THEN "exec" ELSE "do"]
        BY <3>2 DEF ScanBatch
      <4>2. rpCall'[c].op = rpCall[c].op
        BY <1>1, <4>1 DEF PoolCalls
      <4>3. QED
        BY <4>2
    <3>3. QED
      BY <3>1, <3>2
  <2>5. d = c
    BY <1>1, <2>2 DEF CallStep, Call, GetConn, Command, ScanBatch, ExecKeys, ScanFails, Return
  <2>6. QED
    BY <2>2, <2>3, <2>4, <2>5 DEF CallStep
<1>5. QED
  BY <1>3, <1>4

\* ScanDels that runs to its EXEC deletes every key that was there from its first
\* SCAN on, for any number of keys and clients and whatever the batches are
\* (pool.go ScanDels).
THEOREM ScanDelsDeletesAll == PoolSpec => ScanDelsAll
BY PoolInvariance, DeletesAllKept, PTL DEF PoolSpec, ScanDelsAll, DeletesAll

-----------------------------------------------------------------------------
(* MetricCollector: a stopped collector is quiet.                          *)

\* A collector that was never started runs no loop and cannot be stopped; stop
\* returns only after the loop is done; only a loop that exports has families left.
LoopInv(c) ==
  /\ c > mtStarts => mtLoop[c] = "none" /\ mtStop[c] = "no"
  /\ mtStop[c] = "returned" => mtLoop[c] = "done"
  /\ mtLoop[c] # "export" => mtLeft[c] = {}

MetricIInv ==
  /\ mtStarts \in 0..MaxStarts /\ mtRegistry \in 0..MaxStarts
  /\ mtRegistered \in [Collectors -> SUBSET (MetricNames \cup {Runtime})]
  /\ mtLoop \in [Collectors -> LoopStates]
  /\ mtStop \in [Collectors -> {"no", "waiting", "returned"}]
  /\ mtLeft \in [Collectors -> SUBSET Families] /\ mtUsed \subseteq Families
  /\ \A c \in Collectors : LoopInv(c)

LEMMA MetricStart ==
  ASSUME mtStarts = 0, mtRegistry = 0, mtRegistered = [r \in Collectors |-> {}],
         mtLoop = [c \in Collectors |-> "none"], mtStop = [c \in Collectors |-> "no"],
         mtLeft = [c \in Collectors |-> {}], mtUsed = {}
  PROVE  MetricIInv
BY MetricAssumption DEF MetricIInv, LoopInv, LoopStates

LEMMA MetricDies ==
  ASSUME Dies
  PROVE  MetricIInv'
<1>1. /\ mtStarts' = 0 /\ mtRegistry' = 0 /\ mtRegistered' = [r \in Collectors |-> {}]
      /\ mtLoop' = [c \in Collectors |-> "none"] /\ mtStop' = [c \in Collectors |-> "no"]
      /\ mtLeft' = [c \in Collectors |-> {}] /\ mtUsed' = {}
  BY DEF Dies
<1>2. QED
  BY <1>1, MetricAssumption DEF MetricIInv, LoopInv, LoopStates

LEMMA StartInv ==
  ASSUME MetricIInv, Start
  PROVE  MetricIInv'
<1>1. CASE Dies
  BY <1>1, MetricDies
<1>2. CASE ~Dies
  <2>1. /\ mtStarts < MaxStarts /\ mtStarts' = mtStarts + 1
        /\ mtLoop' = mtLoop \/ mtLoop' = [mtLoop EXCEPT ![mtStarts + 1] = "select"]
        /\ UNCHANGED <<mtLeft, mtStop, mtUsed>>
    BY <1>2 DEF Start
  <2>2. mtRegistry' \in 0..MaxStarts
    <3>1. PICK cfg \in Configs, logger \in BOOLEAN : \E g \in Globals(cfg, logger) : mtRegistry' = g[2]
      BY <1>2 DEF Start
    <3>2. PICK g \in Globals(cfg, logger) : mtRegistry' = g[2]
      BY <3>1
    <3>3. g[2] \in {mtRegistry, mtStarts + 1}
      BY <3>2 DEF Globals
    <3>4. QED
      BY <2>1, <3>2, <3>3, MetricAssumption DEF MetricIInv
  <2>3. mtRegistered' \in [Collectors -> SUBSET (MetricNames \cup {Runtime})]
    <3>1. \/ mtRegistered' = mtRegistered
          \/ \E r : mtRegistered' = [mtRegistered EXCEPT ![r] = @ \cup {Runtime}]
      BY <1>2 DEF Start
    <3>2. QED
      BY <3>1 DEF MetricIInv
  <2>4. mtStarts \in Nat /\ mtStarts + 1 \in Collectors /\ mtStarts' \in 0..MaxStarts
    BY <2>1, MetricAssumption DEF MetricIInv, Collectors
  <2>5. mtLoop' \in [Collectors -> LoopStates]
    BY <2>1, <2>4 DEF MetricIInv, LoopStates
  <2>6. ASSUME NEW c \in Collectors PROVE LoopInv(c)'
    <3>1. LoopInv(c) /\ c \in Int
      BY DEF MetricIInv, Collectors
    <3>2. CASE c = mtStarts + 1
      <4>1. mtStop[c] = "no" /\ mtLoop[c] = "none" /\ mtLeft[c] = {}
        BY <2>4, <3>1, <3>2 DEF LoopInv
      <4>2. mtStop'[c] = "no" /\ mtLeft'[c] = {} /\ ~(c > mtStarts')
        BY <2>1, <2>4, <3>1, <3>2, <4>1
      <4>3. QED
        BY <4>2 DEF LoopInv
    <3>3. CASE c # mtStarts + 1
      <4>1. mtLoop'[c] = mtLoop[c] /\ mtStop'[c] = mtStop[c] /\ mtLeft'[c] = mtLeft[c]
        BY <2>1, <3>3 DEF MetricIInv
      <4>2. c > mtStarts' => c > mtStarts
        BY <2>1, <2>4, <3>1
      <4>3. QED
        BY <3>1, <4>1, <4>2 DEF LoopInv
    <3>4. QED
      BY <3>2, <3>3
  <2>7. QED
    BY <2>1, <2>2, <2>3, <2>4, <2>5, <2>6 DEF MetricIInv
<1>3. QED
  BY <1>1, <1>2

\* A step of one started collector's loop or stop function.
LEMMA OneCollector ==
  ASSUME MetricIInv, NEW c \in Collectors, mtLoop[c] # "none" \/ mtStop[c] # "no",
         NEW loop \in LoopStates, NEW stop \in {"no", "waiting", "returned"},
         NEW left \in SUBSET Families,
         mtLoop' = [mtLoop EXCEPT ![c] = loop], mtStop' = [mtStop EXCEPT ![c] = stop],
         mtLeft' = [mtLeft EXCEPT ![c] = left],
         stop = "returned" => loop = "done", loop # "export" => left = {},
         UNCHANGED <<mtStarts, mtRegistry, mtRegistered, mtUsed>>
  PROVE  MetricIInv'
<1>1. /\ mtLoop' \in [Collectors -> LoopStates] /\ mtLeft' \in [Collectors -> SUBSET Families]
      /\ mtStop' \in [Collectors -> {"no", "waiting", "returned"}]
  BY DEF MetricIInv
<1>2. ASSUME NEW d \in Collectors PROVE LoopInv(d)'
  <2>1. LoopInv(d) /\ LoopInv(c)
    BY DEF MetricIInv
  <2>2. CASE d = c
    <3>1. mtLoop'[d] = loop /\ mtStop'[d] = stop /\ mtLeft'[d] = left
      BY <2>2 DEF MetricIInv
    <3>2. ~(d > mtStarts)
      BY <2>1, <2>2 DEF LoopInv
    <3>3. QED
      BY <3>1, <3>2 DEF LoopInv
  <2>3. CASE d # c
    <3>1. mtLoop'[d] = mtLoop[d] /\ mtStop'[d] = mtStop[d] /\ mtLeft'[d] = mtLeft[d]
      BY <2>3 DEF MetricIInv
    <3>2. QED
      BY <2>1, <3>1 DEF LoopInv
  <2>4. QED
    BY <2>2, <2>3
<1>3. QED
  BY <1>1, <1>2 DEF MetricIInv

LEMMA CollectorTyped ==
  ASSUME MetricIInv, NEW c \in Collectors
  PROVE  /\ mtLoop[c] \in LoopStates /\ mtStop[c] \in {"no", "waiting", "returned"}
         /\ mtLeft[c] \in SUBSET Families /\ LoopInv(c)
         /\ mtLoop = [mtLoop EXCEPT ![c] = mtLoop[c]] /\ mtStop = [mtStop EXCEPT ![c] = mtStop[c]]
         /\ mtLeft = [mtLeft EXCEPT ![c] = mtLeft[c]]
BY DEF MetricIInv

LEMMA TakeTickInv ==
  ASSUME MetricIInv, NEW c \in Collectors, NEW gathered \in BOOLEAN, TakeTick(c, gathered)
  PROVE  MetricIInv'
<1>1. CASE Dies
  BY <1>1, MetricDies
<1>2. CASE ~Dies
  <2>1. /\ mtLoop[c] = "select" /\ UNCHANGED <<globalVars, mtStop>>
        /\ \E f : mtLeft' = [mtLeft EXCEPT ![c] = f]
    BY <1>2 DEF TakeTick
  <2>2. PICK left \in SUBSET Families, loop \in LoopStates :
          /\ mtLoop' = [mtLoop EXCEPT ![c] = loop] /\ mtLeft' = [mtLeft EXCEPT ![c] = left]
          /\ loop # "export" => left = {}
    <3> DEFINE exports == ~StatsSpin /\ mtConfig.mode \in GatherModes /\ gathered
               found == {f \in mtUsed : exports /\ f[1] = mtRegistry}
               next == IF StatsSpin THEN "spin" ELSE IF exports THEN "export" ELSE "select"
    <3>1. /\ mtLeft' = [mtLeft EXCEPT ![c] = found]
          /\ mtLoop' = [mtLoop EXCEPT ![c] = CASE StatsSpin -> "spin" [] exports -> "export" [] OTHER -> "select"]
      BY <1>2 DEF TakeTick
    <3>2. found \in SUBSET Families /\ (~exports => found = {})
      BY DEF MetricIInv
    <3>3. next \in LoopStates /\ (next # "export" => ~exports)
      BY DEF LoopStates
    <3>4. next = CASE StatsSpin -> "spin" [] exports -> "export" [] OTHER -> "select"
      OBVIOUS
    <3> HIDE DEF exports, found, next
    <3>5. QED
      BY <3>1, <3>2, <3>3, <3>4
  <2>3. mtStop' = [mtStop EXCEPT ![c] = mtStop[c]] /\ mtStop[c] # "returned"
        /\ mtStop[c] \in {"no", "waiting", "returned"}
    BY <2>1, CollectorTyped DEF LoopInv
  <2>4. UNCHANGED <<mtStarts, mtRegistry, mtRegistered, mtUsed>> /\ mtLoop[c] # "none"
    BY <2>1 DEF globalVars
  <2>5. QED
    BY <2>2, <2>3, <2>4, OneCollector
<1>3. QED
  BY <1>1, <1>2

LEMMA MetricNextInv == MetricIInv /\ [MetricNext]_metricVars => MetricIInv'
<1> SUFFICES ASSUME MetricIInv, [MetricNext]_metricVars PROVE MetricIInv'
  OBVIOUS
<1>1. CASE UNCHANGED metricVars
  BY <1>1 DEF metricVars, globalVars, loopVars, MetricIInv, LoopInv
<1>2. ASSUME NEW name \in MetricNames, NewMetric(name) PROVE MetricIInv'
  <2>1. CASE Dies
    BY <2>1, MetricDies
  <2>2. CASE ~Dies
    <3>1. /\ mtRegistered' = [mtRegistered EXCEPT ![mtRegistry] = @ \cup {name}]
          /\ UNCHANGED <<mtStarts, mtRegistry, mtUsed, mtLoop, mtLeft, mtStop>>
      BY <1>2, <2>2 DEF NewMetric, loopVars
    <3>2. mtRegistered' \in [Collectors -> SUBSET (MetricNames \cup {Runtime})]
      BY <3>1 DEF MetricIInv
    <3>3. QED
      BY <3>1, <3>2 DEF MetricIInv, LoopInv
  <2>3. QED
    BY <2>1, <2>2
<1>3. ASSUME NEW c \in Collectors, TickerFires(c) PROVE MetricIInv'
  BY <1>3 DEF TickerFires, globalVars, MetricIInv, LoopInv
<1>4. ASSUME NEW c \in Collectors, NEW f \in Families, NEW sent \in BOOLEAN, ExportFamily(c, f, sent)
      PROVE  MetricIInv'
  <2>1. /\ mtLoop[c] = "export" /\ UNCHANGED <<mtStarts, mtRegistry, mtRegistered, mtUsed, mtLoop, mtStop>>
        /\ mtLeft' = [mtLeft EXCEPT ![c] = @ \ {f}]
    BY <1>4 DEF ExportFamily, globalVars
  <2>2. mtLeft' = [mtLeft EXCEPT ![c] = mtLeft[c] \ {f}] /\ mtLeft[c] \ {f} \in SUBSET Families
    BY <2>1, CollectorTyped
  <2>3. /\ mtStop[c] # "returned" /\ "export" \in LoopStates
        /\ mtLoop' = [mtLoop EXCEPT ![c] = "export"] /\ mtStop' = [mtStop EXCEPT ![c] = mtStop[c]]
    BY <2>1, CollectorTyped DEF LoopInv, LoopStates
  <2>4. mtLoop[c] # "none" /\ mtStop[c] \in {"no", "waiting", "returned"}
    BY <2>1, CollectorTyped
  <2>5. QED
    BY <2>1, <2>2, <2>3, <2>4, OneCollector
<1>5. ASSUME NEW c \in Collectors, LoopEnds(c) PROVE MetricIInv'
  <2>1. /\ mtLoop[c] = "select" /\ mtLoop' = [mtLoop EXCEPT ![c] = "done"]
        /\ UNCHANGED <<mtStarts, mtRegistry, mtRegistered, mtUsed, mtStop, mtLeft>>
    BY <1>5 DEF LoopEnds, globalVars
  <2>2. mtLeft[c] = {} /\ "done" \in LoopStates
    BY <2>1, CollectorTyped DEF LoopInv, LoopStates
  <2>3. QED
    BY <2>1, <2>2, CollectorTyped, OneCollector
<1>6. ASSUME NEW c \in Collectors, CallStop(c) PROVE MetricIInv'
  <2>1. CASE Dies
    BY <2>1, MetricDies
  <2>2. CASE ~Dies
    <3>1. /\ mtLoop[c] # "none" /\ mtStop' = [mtStop EXCEPT ![c] = "waiting"]
          /\ UNCHANGED <<mtStarts, mtRegistry, mtRegistered, mtUsed, mtLoop, mtLeft>>
      BY <1>6, <2>2 DEF CallStop, globalVars, loopVars
    <3>2. QED
      BY <3>1, CollectorTyped, OneCollector DEF LoopInv
  <2>3. QED
    BY <2>1, <2>2
<1>7. ASSUME NEW c \in Collectors, StopReturn(c) PROVE MetricIInv'
  <2>1. /\ mtLoop[c] = "done" /\ mtStop' = [mtStop EXCEPT ![c] = "returned"]
        /\ UNCHANGED <<mtStarts, mtRegistry, mtRegistered, mtUsed, mtLoop, mtLeft>>
    BY <1>7 DEF StopReturn, globalVars, loopVars
  <2>2. QED
    BY <2>1, CollectorTyped, OneCollector DEF LoopInv
<1>8. ASSUME NEW c \in Collectors, EndRound(c) PROVE MetricIInv'
  <2>1. /\ mtLoop[c] = "export" /\ mtLeft[c] = {} /\ mtLoop' = [mtLoop EXCEPT ![c] = "select"]
        /\ UNCHANGED <<mtStarts, mtRegistry, mtRegistered, mtUsed, mtLeft, mtStop>>
    BY <1>8 DEF EndRound, globalVars
  <2>2. mtStop[c] # "returned" /\ "select" \in LoopStates
    BY <2>1, CollectorTyped DEF LoopInv, LoopStates
  <2>3. QED
    BY <2>1, <2>2, CollectorTyped, OneCollector
<1>9. ASSUME NEW name \in MetricNames, NEW r \in Collectors, UseMetric(r, name) PROVE MetricIInv'
  <2>1. /\ mtUsed' \in {mtUsed \cup {<<r, name>>}, mtUsed \ {<<r, name>>}}
        /\ UNCHANGED <<mtStarts, mtRegistry, mtRegistered, mtLoop, mtLeft, mtStop>>
    BY <1>9 DEF UseMetric, loopVars
  <2>2. mtUsed' \subseteq Families
    BY <2>1 DEF MetricIInv, Families
  <2>3. QED
    BY <2>1, <2>2 DEF MetricIInv, LoopInv
<1>10. QED
  BY <1>1, <1>2, <1>3, <1>4, <1>5, <1>6, <1>7, <1>8, <1>9, StartInv, TakeTickInv
     DEF MetricNext, LoopStep

LEMMA MetricInvariance == MetricSpec => []MetricIInv
<1>1. MetricInit => MetricIInv
  BY MetricStart DEF MetricInit
<1>2. QED
  BY <1>1, MetricNextInv, PTL DEF MetricSpec

\* What a step does to a collector whose Stop has returned.
Quiet ==
  \A c \in Collectors : mtStop[c] = "returned" =>
    \/ mtPanic'
    \/ mtLoop'[c] = mtLoop[c] /\ mtLeft'[c] = mtLeft[c] /\ mtLeft[c] = {}

\* The loop of a stopped collector is done, so no step moves it.
LEMMA QuietKept == MetricIInv /\ [MetricNext]_metricVars => [Quiet]_metricVars
<1> SUFFICES ASSUME MetricIInv, MetricNext, NEW c \in Collectors,
                    mtStop[c] = "returned", ~mtPanic'
             PROVE  mtLoop'[c] = mtLoop[c] /\ mtLeft'[c] = mtLeft[c] /\ mtLeft[c] = {}
  BY DEF Quiet
<1>1. /\ mtLoop[c] = "done" /\ mtLeft[c] = {} /\ c # mtStarts + 1 /\ ~Dies
      /\ mtLoop \in [Collectors -> LoopStates] /\ mtLeft \in [Collectors -> SUBSET Families]
  <2>1. LoopInv(c) /\ mtStarts \in Nat /\ c \in Int
    BY MetricAssumption DEF MetricIInv, Collectors
  <2>2. mtLoop[c] = "done" /\ mtLeft[c] = {} /\ c # mtStarts + 1
    BY <2>1 DEF LoopInv
  <2>3. QED
    BY <2>2 DEF MetricIInv, Dies
<1>2. CASE Start
  <2>1. /\ mtLoop' = mtLoop \/ mtLoop' = [mtLoop EXCEPT ![mtStarts + 1] = "select"]
        /\ mtLeft' = mtLeft
    BY <1>1, <1>2 DEF Start
  <2>2. QED
    BY <1>1, <2>1
<1>3. ASSUME NEW name \in MetricNames, NewMetric(name) \/ \E r \in Collectors : UseMetric(r, name)
      PROVE  UNCHANGED <<mtLoop, mtLeft>>
  BY <1>1, <1>3 DEF NewMetric, UseMetric, loopVars
<1>4. ASSUME NEW d \in Collectors, LoopStep(d)
      PROVE  mtLoop'[c] = mtLoop[c] /\ mtLeft'[c] = mtLeft[c]
  <2>1. d # c
    BY <1>1, <1>4 DEF LoopStep, TakeTick, ExportFamily, EndRound, LoopEnds
  <2>2. /\ \E x : mtLoop' = [mtLoop EXCEPT ![d] = x] \/ mtLoop' = mtLoop
        /\ \E x : mtLeft' = [mtLeft EXCEPT ![d] = x] \/ mtLeft' = mtLeft
    BY <1>1, <1>4 DEF LoopStep, TakeTick, ExportFamily, EndRound, LoopEnds
  <2>3. QED
    BY <1>1, <2>1, <2>2
<1>5. ASSUME NEW d \in Collectors, TickerFires(d) \/ CallStop(d) \/ StopReturn(d)
      PROVE  UNCHANGED <<mtLoop, mtLeft>>
  BY <1>1, <1>5 DEF TickerFires, CallStop, StopReturn, loopVars
<1>6. QED
  BY <1>1, <1>2, <1>3, <1>4, <1>5 DEF MetricNext

\* Once a stop function has returned its collector's loop gathers and exports
\* nothing more, for any number of collectors that share the exporter
\* (metric.go, the wg.Wait of the function Start returns).
THEOREM StoppedIsQuiet == MetricSpec => QuietAfterStop
BY MetricInvariance, QuietKept, PTL DEF MetricSpec, QuietAfterStop, Quiet

-----------------------------------------------------------------------------
(* K8sProbe: an answer tells what the probes said.                         *)

ProbeRequest ==
  [type : ProbeTypes \cup {"none", "unknown"},
   step : {"idle", "clone", "check", "ok", "unavailable", "badRequest"},
   clone : Seq(Probe), at : Nat, cause : Probe \cup {0}]

\* The clone holds registered probes of the type only, and all those registered
\* before the request came; those it has passed and that never changed are valid.
RequestInv(r) ==
  LET q == k8Request[r]
  IN  /\ q.step \in {"clone", "check"} => q.type \in ProbeTypes
      /\ q.step = "clone" => k8Steady[r] \subseteq ToSet(k8Probes[q.type])
      /\ q.step = "check" =>
           /\ q.at > 0 /\ k8Steady[r] \subseteq ToSet(q.clone)
           /\ ToSet(q.clone) \subseteq ToSet(k8Probes[q.type])
           /\ \A i \in 1..Len(q.clone) :
                i < q.at /\ q.clone[i] \in k8Steady[r] => k8Valid[q.clone[i]]

ProbeIInv ==
  /\ k8Probes \in [ProbeTypes -> Seq(Probe)] /\ k8Valid \in [Probe -> BOOLEAN]
  /\ k8Steady \in [ProbeRequests -> SUBSET Probe]
  /\ k8Request \in [ProbeRequests -> ProbeRequest]
  /\ \A r \in ProbeRequests : RequestInv(r)

LEMMA ProbeInitInv == ProbeInit => ProbeIInv
<1> SUFFICES ASSUME ProbeInit PROVE ProbeIInv
  OBVIOUS
<1>1. /\ k8Probes \in [ProbeTypes -> Seq(Probe)] /\ k8Steady \in [ProbeRequests -> SUBSET Probe]
  BY DEF ProbeInit
<1>2. k8Valid \in [Probe -> BOOLEAN]
  BY DEF ProbeInit
<1>3. NoRequest \in ProbeRequest /\ NoRequest.step = "idle"
  BY DEF NoRequest, ProbeRequest
<1>4. k8Request = [r \in ProbeRequests |-> NoRequest]
  BY DEF ProbeInit
<1>5. \A r \in ProbeRequests : RequestInv(r)
  BY <1>3, <1>4 DEF RequestInv
<1>6. QED
  BY <1>1, <1>2, <1>3, <1>4, <1>5 DEF ProbeIInv

LEMMA RegisterProbeInv ==
  ASSUME ProbeIInv, NEW t \in ProbeTypes, RegisterProbe(t)
  PROVE  ProbeIInv'
<1>1. PICK p \in Probe : k8Probes' = [k8Probes EXCEPT ![t] = Append(@, p)]
  BY DEF RegisterProbe
<1>2. UNCHANGED <<k8Valid, k8Request, k8Steady>>
  BY DEF RegisterProbe
<1>3. /\ k8Probes[t] \in Seq(Probe) /\ Append(k8Probes[t], p) \in Seq(Probe)
      /\ ToSet(Append(k8Probes[t], p)) = ToSet(k8Probes[t]) \cup {p}
  BY AppendQueue DEF ProbeIInv
<1>4. k8Probes' \in [ProbeTypes -> Seq(Probe)]
  BY <1>1, <1>3 DEF ProbeIInv
<1>5. \A u \in ProbeTypes : ToSet(k8Probes[u]) \subseteq ToSet(k8Probes'[u])
  BY <1>1, <1>3 DEF ProbeIInv
<1>6. ASSUME NEW r \in ProbeRequests PROVE RequestInv(r)'
  BY <1>2, <1>5 DEF ProbeIInv, RequestInv
<1>7. QED
  BY <1>2, <1>4, <1>6 DEF ProbeIInv

LEMMA ProbeChangesInv ==
  ASSUME ProbeIInv, NEW p, ProbeChanges(p)
  PROVE  ProbeIInv'
<1>1. /\ k8Valid' = [k8Valid EXCEPT ![p] = ~@]
      /\ k8Steady' = [r \in ProbeRequests |-> k8Steady[r] \ {p}]
      /\ UNCHANGED <<k8Probes, k8Request>>
  BY DEF ProbeChanges
<1>2. k8Steady' \in [ProbeRequests -> SUBSET Probe]
  BY <1>1 DEF ProbeIInv
<1>3. k8Valid' \in [Probe -> BOOLEAN]
  BY <1>1 DEF ProbeIInv
<1>4. ASSUME NEW r \in ProbeRequests PROVE RequestInv(r)'
  <2>1. k8Steady'[r] \subseteq k8Steady[r] /\ p \notin k8Steady'[r] /\ k8Steady[r] \subseteq Probe
    BY <1>1 DEF ProbeIInv
  <2>2. \A q \in k8Steady'[r] : k8Valid'[q] = k8Valid[q]
    BY <1>1, <2>1 DEF ProbeIInv
  <2>3. RequestInv(r)
    BY DEF ProbeIInv
  <2>4. QED
    BY <1>1, <2>1, <2>2, <2>3 DEF RequestInv
<1>5. QED
  BY <1>1, <1>2, <1>3, <1>4 DEF ProbeIInv

\* A step of one request.
LEMMA OneRequest ==
  ASSUME ProbeIInv, NEW r \in ProbeRequests, NEW q \in ProbeRequest,
         NEW steady \in SUBSET Probe,
         k8Request' = [k8Request EXCEPT ![r] = q], k8Steady' = [k8Steady EXCEPT ![r] = steady],
         UNCHANGED <<k8Probes, k8Valid>>,
         q.step \in {"clone", "check"} => q.type \in ProbeTypes,
         q.step = "clone" => steady \subseteq ToSet(k8Probes[q.type]),
         q.step = "check" =>
           /\ q.at > 0 /\ steady \subseteq ToSet(q.clone)
           /\ ToSet(q.clone) \subseteq ToSet(k8Probes[q.type])
           /\ \A i \in 1..Len(q.clone) :
                i < q.at /\ q.clone[i] \in steady => k8Valid[q.clone[i]]
  PROVE  ProbeIInv'
<1>1. k8Request' \in [ProbeRequests -> ProbeRequest] /\ k8Steady' \in [ProbeRequests -> SUBSET Probe]
  BY DEF ProbeIInv
<1>2. k8Request'[r] = q /\ k8Steady'[r] = steady
  BY DEF ProbeIInv
<1>3. RequestInv(r)'
  BY <1>2 DEF RequestInv
<1>4. ASSUME NEW s \in ProbeRequests, s # r PROVE RequestInv(s)'
  <2>1. k8Request'[s] = k8Request[s] /\ k8Steady'[s] = k8Steady[s] /\ RequestInv(s)
    BY <1>4 DEF ProbeIInv
  <2>2. QED
    BY <2>1 DEF RequestInv
<1>5. QED
  BY <1>1, <1>3, <1>4 DEF ProbeIInv

LEMMA RequestTyped ==
  ASSUME ProbeIInv, NEW r \in ProbeRequests
  PROVE  /\ k8Request[r] \in ProbeRequest /\ k8Steady[r] \in SUBSET Probe
         /\ k8Steady = [k8Steady EXCEPT ![r] = k8Steady[r]] /\ RequestInv(r)
         /\ k8Request[r].clone \in Seq(Probe) /\ k8Request[r].at \in Nat
BY DEF ProbeIInv, ProbeRequest

LEMMA ServeHTTPInv ==
  ASSUME ProbeIInv, NEW r \in ProbeRequests, NEW t \in ProbeTypes \cup {"unknown"}, ServeHTTP(r, t)
  PROVE  ProbeIInv'
<1>1. PICK step \in {"clone", "badRequest"} :
        step = IF t \in ProbeTypes THEN "clone" ELSE "badRequest"
  OBVIOUS
<1>2. PICK steady \in SUBSET Probe :
        steady = IF t \in ProbeTypes THEN {k8Probes[t][i] : i \in DOMAIN k8Probes[t]} ELSE {}
  <2>1. ASSUME t \in ProbeTypes PROVE ToSet(k8Probes[t]) \in SUBSET Probe
    <3>1. k8Probes[t] \in Seq(Probe)
      BY <2>1 DEF ProbeIInv
    <3>2. QED
      BY <3>1, ElementOf
  <2>2. QED
    BY <2>1 DEF ToSet
<1>3. PICK q : q = [NoRequest EXCEPT !.type = t, !.step = step]
  OBVIOUS
<1>4. /\ k8Request' = [k8Request EXCEPT ![r] = q] /\ k8Steady' = [k8Steady EXCEPT ![r] = steady]
      /\ UNCHANGED <<k8Probes, k8Valid>>
  BY <1>1, <1>2, <1>3 DEF ServeHTTP
<1>5. NoRequest \in ProbeRequest
  BY DEF NoRequest, ProbeRequest
<1>6. q \in ProbeRequest /\ q.type = t /\ q.step = step
  BY <1>3, <1>5 DEF ProbeRequest
<1>7. q.step = "clone" => q.type \in ProbeTypes /\ steady \subseteq ToSet(k8Probes[q.type])
  BY <1>1, <1>2, <1>6 DEF ToSet
<1>8. q.step # "check"
  BY <1>1, <1>6
<1>9. QED
  BY <1>2, <1>4, <1>6, <1>7, <1>8, OneRequest

LEMMA CloneProbesInv ==
  ASSUME ProbeIInv, NEW r \in ProbeRequests, CloneProbes(r)
  PROVE  ProbeIInv'
<1>1. /\ k8Request[r].step = "clone" /\ UNCHANGED <<k8Probes, k8Valid, k8Steady>>
      /\ k8Request' = [k8Request EXCEPT ![r].step = "check", ![r].at = 1,
                                        ![r].clone = k8Probes[k8Request[r].type]]
  BY DEF CloneProbes
<1>2. /\ k8Request[r] \in ProbeRequest /\ k8Steady[r] \in SUBSET Probe
      /\ k8Steady' = [k8Steady EXCEPT ![r] = k8Steady[r]]
      /\ k8Request[r].type \in ProbeTypes
      /\ k8Steady[r] \subseteq ToSet(k8Probes[k8Request[r].type])
  BY <1>1, RequestTyped DEF RequestInv
<1>3. PICK probes \in Seq(Probe) : probes = k8Probes[k8Request[r].type]
  BY <1>2 DEF ProbeIInv
<1>4. PICK q : q = [k8Request[r] EXCEPT !.step = "check", !.at = 1, !.clone = probes]
  OBVIOUS
<1>5. k8Request' = [k8Request EXCEPT ![r] = q]
  BY <1>1, <1>3, <1>4
<1>6. /\ q \in ProbeRequest /\ q.step = "check" /\ q.at = 1 /\ q.clone = probes
      /\ q.type = k8Request[r].type
  BY <1>2, <1>3, <1>4 DEF ProbeRequest
<1>7. \A i \in 1..Len(probes) : ~(i < 1)
  OBVIOUS
<1>8. /\ q.at > 0 /\ k8Steady[r] \subseteq ToSet(q.clone)
      /\ ToSet(q.clone) \subseteq ToSet(k8Probes[q.type])
      /\ \A i \in 1..Len(q.clone) :
           i < q.at /\ q.clone[i] \in k8Steady[r] => k8Valid[q.clone[i]]
  <2>1. ToSet(probes) = ToSet(k8Probes[q.type]) /\ k8Steady[r] \subseteq ToSet(probes)
    BY <1>2, <1>3, <1>6
  <2>2. QED
    BY <1>6, <1>7, <2>1
<1>9. q.type \in ProbeTypes /\ q.step # "clone"
  BY <1>2, <1>6
<1>10. QED
  BY <1>1, <1>2, <1>5, <1>6, <1>8, <1>9, OneRequest

\* What one turn of checkProbe does to its request.
LEMMA CheckProbeStep ==
  ASSUME ProbeIInv, NEW r \in ProbeRequests, CheckProbe(r)
  PROVE  \E q \in ProbeRequest :
           LET probes == k8Request[r].clone
               at == k8Request[r].at
           IN  /\ k8Request' = [k8Request EXCEPT ![r] = q]
               /\ \/ q.step = "ok" /\ at > Len(probes)
                  \/ /\ q.step = "check" /\ q.type = k8Request[r].type /\ q.clone = probes
                     /\ q.at = at + 1 /\ k8Valid[probes[at]] /\ at <= Len(probes)
                  \/ /\ q.step = "unavailable" /\ q.cause = probes[at]
                     /\ ~k8Valid[probes[at]] /\ at <= Len(probes)
<1> DEFINE probes == k8Request[r].clone
           at == k8Request[r].at
<1>1. /\ k8Request[r] \in ProbeRequest /\ probes \in Seq(Probe) /\ at \in Nat /\ at > 0
      /\ k8Request[r].step = "check"
  BY RequestTyped DEF RequestInv, CheckProbe
<1>2. CASE at > Len(probes)
  <2>1. k8Request' = [k8Request EXCEPT ![r] = [@ EXCEPT !.step = "ok"]]
    BY <1>2 DEF CheckProbe
  <2>2. PICK q : q = [k8Request[r] EXCEPT !.step = "ok"]
    OBVIOUS
  <2>3. q \in ProbeRequest /\ q.step = "ok" /\ k8Request' = [k8Request EXCEPT ![r] = q]
    BY <1>1, <2>1, <2>2 DEF ProbeRequest
  <2>4. QED
    BY <1>2, <2>3
<1>3. CASE ~(at > Len(probes)) /\ k8Valid[probes[at]]
  <2>1. k8Request' = [k8Request EXCEPT ![r] = [@ EXCEPT !.at = at + 1]]
    BY <1>3 DEF CheckProbe
  <2>2. PICK q : q = [k8Request[r] EXCEPT !.at = at + 1]
    OBVIOUS
  <2>3. /\ q \in ProbeRequest /\ k8Request' = [k8Request EXCEPT ![r] = q]
        /\ q.step = "check" /\ q.type = k8Request[r].type /\ q.clone = probes /\ q.at = at + 1
    BY <1>1, <2>1, <2>2 DEF ProbeRequest
  <2>4. at <= Len(probes)
    BY <1>1, <1>3
  <2>5. QED
    BY <1>3, <2>3, <2>4
<1>4. CASE ~(at > Len(probes)) /\ ~k8Valid[probes[at]]
  <2>1. k8Request' = [k8Request EXCEPT ![r] =
                        [@ EXCEPT !.step = "unavailable", !.cause = probes[at]]]
    BY <1>4 DEF CheckProbe
  <2>2. PICK q : q = [k8Request[r] EXCEPT !.step = "unavailable", !.cause = probes[at]]
    OBVIOUS
  <2>3. at <= Len(probes) /\ probes[at] \in Probe
    BY <1>1, <1>4
  <2>4. /\ q \in ProbeRequest /\ k8Request' = [k8Request EXCEPT ![r] = q]
        /\ q.step = "unavailable" /\ q.cause = probes[at]
    BY <1>1, <2>1, <2>2, <2>3 DEF ProbeRequest
  <2>5. QED
    BY <1>4, <2>3, <2>4
<1>5. QED
  BY <1>2, <1>3, <1>4

LEMMA CheckProbeInv ==
  ASSUME ProbeIInv, NEW r \in ProbeRequests, CheckProbe(r)
  PROVE  ProbeIInv'
<1> DEFINE probes == k8Request[r].clone
           at == k8Request[r].at
<1>1. PICK q \in ProbeRequest :
        /\ k8Request' = [k8Request EXCEPT ![r] = q]
        /\ \/ q.step = "ok"
           \/ /\ q.step = "check" /\ q.type = k8Request[r].type /\ q.clone = probes
              /\ q.at = at + 1 /\ k8Valid[probes[at]] /\ at <= Len(probes)
           \/ q.step = "unavailable"
  BY CheckProbeStep
<1>2. /\ k8Request[r].step = "check" /\ UNCHANGED <<k8Probes, k8Valid, k8Steady>>
  BY DEF CheckProbe
<1>3. /\ k8Steady[r] \in SUBSET Probe /\ k8Steady' = [k8Steady EXCEPT ![r] = k8Steady[r]]
      /\ probes \in Seq(Probe) /\ at \in Nat /\ at > 0
      /\ k8Request[r].type \in ProbeTypes /\ k8Steady[r] \subseteq ToSet(probes)
      /\ ToSet(probes) \subseteq ToSet(k8Probes[k8Request[r].type])
      /\ \A i \in 1..Len(probes) : i < at /\ probes[i] \in k8Steady[r] => k8Valid[probes[i]]
  BY <1>2, RequestTyped DEF RequestInv
<1> HIDE DEF probes, at
<1>4. q.step = "check" => \A i \in 1..Len(q.clone) :
        i < q.at /\ q.clone[i] \in k8Steady[r] => k8Valid[q.clone[i]]
  <2>1. ASSUME k8Valid[probes[at]], NEW i \in 1..Len(probes), i < at + 1, probes[i] \in k8Steady[r]
        PROVE  k8Valid[probes[i]]
    <3>1. i < at \/ i = at
      BY <1>3, <2>1
    <3>2. QED
      BY <1>3, <2>1, <3>1
  <2>2. QED
    BY <1>1, <2>1
<1>5. q.step = "check" => q.at > 0 /\ q.clone = probes /\ q.type = k8Request[r].type
  BY <1>1, <1>3
<1>6. q.step # "clone"
  BY <1>1
<1>7. QED
  BY <1>1, <1>2, <1>3, <1>4, <1>5, <1>6, OneRequest

LEMMA ProbeNextInv == ProbeIInv /\ [ProbeNext]_probeVars => ProbeIInv'
<1> SUFFICES ASSUME ProbeIInv, [ProbeNext]_probeVars PROVE ProbeIInv'
  OBVIOUS
<1>1. CASE UNCHANGED probeVars
  BY <1>1 DEF probeVars, ProbeIInv, RequestInv
<1>2. QED
  BY <1>1, RegisterProbeInv, ProbeChangesInv, ServeHTTPInv, CloneProbesInv, CheckProbeInv
     DEF ProbeNext

LEMMA ProbeInvariance == ProbeSpec => []ProbeIInv
BY ProbeInitInv, ProbeNextInv, PTL DEF ProbeSpec

\* A request is answered OK only when every probe that was registered before it
\* came and did not change is valid; a refusal names a probe of its type
\* that failed (manager.go checkProbe), however many probes there are.
THEOREM AnswersAreTrue == ProbeSpec => AnswerIsTrue
<1> DEFINE Honest == \A r \in ProbeRequests :
  /\ k8Request'[r].step = "ok" /\ k8Request[r].step # "ok" =>
       \A p \in k8Steady[r] : k8Valid[p]
  /\ k8Request'[r].step = "unavailable" /\ k8Request[r].step # "unavailable" =>
       LET cause == k8Request'[r].cause  t == k8Request[r].type IN
       /\ \E i \in DOMAIN k8Probes[t] : k8Probes[t][i] = cause
       /\ cause \in k8Steady[r] => ~k8Valid[cause]
<1>1. ASSUME ProbeIInv, NEW r \in ProbeRequests, CheckProbe(r),
             k8Request'[r].step = "ok"
      PROVE  \A p \in k8Steady[r] : k8Valid[p]
  <2> DEFINE probes == k8Request[r].clone
             at == k8Request[r].at
  <2>1. /\ probes \in Seq(Probe) /\ at \in Nat /\ k8Steady[r] \subseteq ToSet(probes)
        /\ \A i \in 1..Len(probes) : i < at /\ probes[i] \in k8Steady[r] => k8Valid[probes[i]]
    BY <1>1, RequestTyped DEF RequestInv, CheckProbe
  <2>2. at > Len(probes)
    <3>1. PICK q \in ProbeRequest :
            /\ k8Request' = [k8Request EXCEPT ![r] = q]
            /\ (q.step = "ok" /\ at > Len(probes)) \/ q.step = "check" \/ q.step = "unavailable"
      BY <1>1, CheckProbeStep
    <3>2. k8Request'[r] = q
      BY <1>1, <3>1 DEF ProbeIInv
    <3>3. QED
      BY <1>1, <3>1, <3>2
  <2> HIDE DEF probes, at
  <2>3. ASSUME NEW p \in k8Steady[r] PROVE k8Valid[p]
    <3>1. PICK i \in 1..Len(probes) : p = probes[i]
      BY <2>1, ElementOf
    <3>2. i < at
      BY <2>1, <2>2
    <3>3. QED
      BY <2>1, <3>1, <3>2
  <2>4. QED
    BY <2>3
<1>2. ASSUME ProbeIInv, NEW r \in ProbeRequests, CheckProbe(r),
             k8Request'[r].step = "unavailable"
      PROVE  LET cause == k8Request'[r].cause  t == k8Request[r].type IN
             /\ \E i \in DOMAIN k8Probes[t] : k8Probes[t][i] = cause
             /\ ~k8Valid[cause]
  <2> DEFINE probes == k8Request[r].clone
             at == k8Request[r].at
             t == k8Request[r].type
  <2>1. /\ probes \in Seq(Probe) /\ at \in Nat /\ at > 0
        /\ t \in ProbeTypes /\ ToSet(probes) \subseteq ToSet(k8Probes[t])
    BY <1>2, RequestTyped DEF RequestInv, CheckProbe
  <2>2. k8Request'[r].cause = probes[at] /\ ~k8Valid[probes[at]] /\ at <= Len(probes)
    <3>1. PICK q \in ProbeRequest :
            /\ k8Request' = [k8Request EXCEPT ![r] = q]
            /\ \/ q.step = "ok" \/ q.step = "check"
               \/ /\ q.step = "unavailable" /\ q.cause = probes[at]
                  /\ ~k8Valid[probes[at]] /\ at <= Len(probes)
      BY <1>2, CheckProbeStep
    <3>2. k8Request'[r] = q
      BY <1>2, <3>1 DEF ProbeIInv
    <3>3. QED
      BY <1>2, <3>1, <3>2
  <2> HIDE DEF probes, at
  <2>3. probes[at] \in ToSet(probes)
    <3>1. at \in 1..Len(probes)
      BY <2>1, <2>2
    <3>2. QED
      BY <2>1, <3>1, ElementOf
  <2>4. \E i \in DOMAIN k8Probes[t] : k8Probes[t][i] = probes[at]
    <3>1. probes[at] \in ToSet(k8Probes[t])
      BY <2>1, <2>3
    <3>2. QED
      BY <3>1 DEF ToSet
  <2>5. QED
    BY <2>2, <2>4
<1>3. ASSUME ProbeIInv, ProbeNext, NEW r \in ProbeRequests,
             k8Request'[r].step \in {"ok", "unavailable"}, k8Request'[r].step # k8Request[r].step
      PROVE  CheckProbe(r)
  <2>1. k8Request \in [ProbeRequests -> ProbeRequest] /\ k8Request' # k8Request
    BY <1>3 DEF ProbeIInv
  <2>2. PICK s \in ProbeRequests :
          CloneProbes(s) \/ CheckProbe(s) \/ \E t \in ProbeTypes \cup {"unknown"} : ServeHTTP(s, t)
    <3>1. ~(\E t \in ProbeTypes : RegisterProbe(t)) /\ ~(\E p \in Registered : ProbeChanges(p))
      BY <2>1 DEF RegisterProbe, ProbeChanges
    <3>2. QED
      BY <1>3, <3>1 DEF ProbeNext
  <2>3. s = r
    <3>1. \E x : k8Request' = [k8Request EXCEPT ![s] = x]
      <4>1. CASE CloneProbes(s)
        <5>1. k8Request' = [k8Request EXCEPT ![s] = [@ EXCEPT !.step = "check", !.at = 1,
                                              !.clone = k8Probes[k8Request[s].type]]]
          BY <4>1 DEF CloneProbes
        <5>2. QED
          BY <5>1
      <4>2. CASE CheckProbe(s)
        BY <1>3, <4>2, CheckProbeStep
      <4>3. CASE \E t \in ProbeTypes \cup {"unknown"} : ServeHTTP(s, t)
        BY <4>3 DEF ServeHTTP
      <4>4. QED
        BY <2>2, <4>1, <4>2, <4>3
    <3>2. QED
      BY <1>3, <2>1, <3>1
  <2>4. ~CloneProbes(s)
    <3>1. ASSUME CloneProbes(s) PROVE FALSE
      <4>1. k8Request' = [k8Request EXCEPT ![r].step = "check", ![r].at = 1,
                                           ![r].clone = k8Probes[k8Request[r].type]]
        BY <2>3, <3>1 DEF CloneProbes
      <4>2. k8Request'[r].step = "check"
        BY <2>1, <4>1 DEF ProbeRequest
      <4>3. QED
        BY <1>3, <4>2
    <3>2. QED
      BY <3>1
  <2>5. ASSUME NEW t \in ProbeTypes \cup {"unknown"}, ServeHTTP(s, t) PROVE FALSE
    <3>1. PICK step \in {"clone", "badRequest"} :
            k8Request' = [k8Request EXCEPT ![r] = [NoRequest EXCEPT !.type = t, !.step = step]]
      BY <2>3, <2>5 DEF ServeHTTP
    <3>2. k8Request'[r].step = step
      BY <2>1, <3>1 DEF NoRequest
    <3>3. QED
      BY <1>3, <3>2
  <2>6. QED
    BY <2>2, <2>3, <2>4, <2>5
<1>4. ProbeIInv /\ [ProbeNext]_probeVars => [Honest]_probeVars
  <2> SUFFICES ASSUME ProbeIInv, ProbeNext PROVE Honest
    OBVIOUS
  <2>1. ASSUME NEW r \in ProbeRequests, k8Request'[r].step = "ok", k8Request[r].step # "ok"
        PROVE  \A p \in k8Steady[r] : k8Valid[p]
    BY <1>1, <1>3, <2>1
  <2>2. ASSUME NEW r \in ProbeRequests,
               k8Request'[r].step = "unavailable", k8Request[r].step # "unavailable"
        PROVE  LET cause == k8Request'[r].cause  t == k8Request[r].type IN
               /\ \E i \in DOMAIN k8Probes[t] : k8Probes[t][i] = cause
               /\ ~k8Valid[cause]
    BY <1>2, <1>3, <2>2
  <2>3. QED
    BY <2>1, <2>2
<1>5. QED
  BY ProbeInvariance, <1>4, PTL DEF ProbeSpec, AnswerIsTrue

-----------------------------------------------------------------------------
(* ErrorPool: a code names one error, and survives the way.                *)

Carried == [form : {"none", "nil", "status", "json", "text"}, code : Int, details : Int]

\* err carries what want says, in whatever form it is.
Carries(err, want) ==
  /\ err \in Carried
  /\ err.form \in {"none", "text"} => want = <<>>
  /\ err.form \in {"nil", "status", "json"} /\ want # <<>> => want = <<err.code, err.details>>

\* The pool has the codes of the errors made and no others.
PoolExact == erMade \in Seq(Int) /\ erPool = ToSet(erMade) /\ CodesDistinct

ErrorIInv == PoolExact /\ Carries(erErr, erWant)

LEMMA FormsCarry ==
  ASSUME NEW code \in Int, NEW details \in Int, code = 0 => details = 0
  PROVE  /\ Carries(ErrOf(code, details), <<code, details>>)
         /\ Carries(JsonOf(code, details), <<code, details>>)
         /\ Carries(MarshalStatus(code, details), <<code, details>>)
<1>1. /\ ErrOf(code, details) = IF code = 0 THEN [form |-> "nil", code |-> 0, details |-> 0]
                               ELSE [form |-> "status", code |-> code, details |-> details]
      /\ JsonOf(code, details) = [form |-> "json", code |-> code, details |-> details]
  BY DEF ErrOf, JsonOf, Nil
<1>2. Carries([form |-> "nil", code |-> 0, details |-> 0], <<0, 0>>)
  BY DEF Carries, Carried
<1>3. /\ Carries([form |-> "status", code |-> code, details |-> details], <<code, details>>)
      /\ Carries([form |-> "json", code |-> code, details |-> details], <<code, details>>)
  BY DEF Carries, Carried
<1>4. /\ Carries(ErrOf(code, details), <<code, details>>)
      /\ Carries(JsonOf(code, details), <<code, details>>)
  BY <1>1, <1>2, <1>3
<1>5. QED
  BY <1>4 DEF MarshalStatus

LEMMA Int32IsInt == \A n \in Int : Int32(n) \in Int
BY ErrorPoolAssumption DEF Int32

LEMMA ErrorInitInv == ErrorInit => ErrorIInv
<1> SUFFICES ASSUME ErrorInit PROVE ErrorIInv
  OBVIOUS
<1>1. erMade = <<>> /\ erPool = {} /\ erErr = NoError /\ erWant = <<>>
  BY DEF ErrorInit
<1>2. PoolExact
  BY <1>1, EmptyQueue DEF PoolExact, CodesDistinct
<1>3. Carries(NoError, <<>>)
  BY DEF Carries, Carried, NoError
<1>4. QED
  BY <1>1, <1>2, <1>3 DEF ErrorIInv

LEMMA AddErrorInv ==
  ASSUME ErrorIInv, NEW base \in Bases, NEW code \in Codes, AddError(base, code)
  PROVE  ErrorIInv'
<1>1. PICK full \in Int : full = FullCode(base, code)
  BY ErrorPoolAssumption, Int32IsInt DEF FullCode
<1>2. CASE UNCHANGED <<erPool, erMade, erErr, erWant>>
  BY <1>2 DEF ErrorIInv, PoolExact, CodesDistinct
<1>3. CASE ~UNCHANGED <<erPool, erMade, erErr, erWant>>
  <2>1. erErr' = MarshalStatus(full, 0) /\ erWant' = <<full, 0>>
    BY <1>1, <1>3 DEF AddError
  <2>2. Carries(erErr', erWant')
    BY <1>1, <2>1, FormsCarry
  <2>3. CASE UNCHANGED <<erPool, erMade>>
    BY <2>2, <2>3 DEF ErrorIInv, PoolExact, CodesDistinct
  <2>4. CASE ~UNCHANGED <<erPool, erMade>>
    <3>1. full \notin erPool /\ erPool' = erPool \cup {full} /\ erMade' = Append(erMade, full)
      BY <1>1, <1>3, <2>4 DEF AddError, Taken
    <3>2. erMade \in Seq(Int) /\ erPool = ToSet(erMade) /\ IsInjective(erMade)
      BY DEF ErrorIInv, PoolExact, CodesDistinct, IsInjective
    <3>3. erMade' \in Seq(Int) /\ ToSet(erMade') = erPool'
      BY <3>1, <3>2, AppendQueue
    <3>4. IsInjective(Append(erMade, full))
      BY <3>1, <3>2, AppendIsInjective
    <3>5. CodesDistinct'
      BY <3>1, <3>4 DEF CodesDistinct, IsInjective
    <3>6. QED
      BY <2>2, <3>3, <3>5 DEF ErrorIInv, PoolExact
  <2>5. QED
    BY <2>3, <2>4
<1>4. QED
  BY <1>2, <1>3

\* The steps that make no error of the pool.
LEMMA PoolStays ==
  ASSUME ErrorIInv, UNCHANGED <<erPool, erMade>>, Carries(erErr', erWant')
  PROVE  ErrorIInv'
BY DEF ErrorIInv, PoolExact, CodesDistinct

LEMMA WithDetailsInv ==
  ASSUME ErrorIInv, WithDetails
  PROVE  ErrorIInv'
<1>1. /\ erErr # NoError /\ UNCHANGED <<erPool, erMade>> /\ erErr \in Carried
      /\ Carries(erErr, erWant)
  BY DEF WithDetails, ErrorIInv, Carries
<1>2. PICK code \in Int, details \in Int : code = erErr.code /\ details = erErr.details
  BY <1>1 DEF Carried
<1>3. PICK more \in Int : more = Detailed(code, details) /\ (code = 0 => more = 0)
  BY DEF Detailed
<1>4. erErr' = IF erErr.form = "text" THEN Nil ELSE ErrOf(code, more)
  BY <1>2, <1>3 DEF WithDetails
<1>5. CASE erWant = <<>>
  <2>1. erWant' = <<>>
    BY <1>5 DEF WithDetails
  <2>2. Nil = ErrOf(0, 0)
    BY DEF ErrOf
  <2>3. Carries(ErrOf(0, 0), <<0, 0>>) /\ Carries(ErrOf(code, more), <<code, more>>)
    BY <1>3, FormsCarry
  <2>4. \A err, want : Carries(err, want) /\ err.form # "text" => Carries(err, <<>>)
    BY DEF Carries
  <2>5. ErrOf(0, 0).form # "text" /\ ErrOf(code, more).form # "text"
    BY DEF ErrOf, Nil
  <2>6. Carries(erErr', <<>>)
    BY <1>4, <2>2, <2>3, <2>4, <2>5
  <2>7. QED
    BY <1>1, <2>1, <2>6, PoolStays
<1>6. CASE erWant # <<>>
  <2>1. erErr.form # "text" /\ erWant = <<code, details>>
    <3>1. erErr.form \notin {"none", "text"}
      BY <1>1, <1>6 DEF Carries
    <3>2. erErr.form \in {"nil", "status", "json"}
      BY <1>1, <3>1 DEF Carried
    <3>3. QED
      BY <1>1, <1>2, <1>6, <3>1, <3>2 DEF Carries
  <2>2. erErr' = ErrOf(code, more) /\ erWant' = <<code, more>>
    <3>1. erWant[1] = code /\ erWant[2] = details
      BY <2>1
    <3>2. QED
      BY <1>3, <1>4, <1>6, <2>1, <3>1 DEF WithDetails
  <2>3. Carries(ErrOf(code, more), <<code, more>>)
    BY <1>3, FormsCarry
  <2>4. QED
    BY <1>1, <2>2, <2>3, PoolStays
<1>7. QED
  BY <1>5, <1>6

LEMMA ErrorNextInv == ErrorIInv /\ [ErrorNext]_errorVars => ErrorIInv'
<1> SUFFICES ASSUME ErrorIInv, [ErrorNext]_errorVars PROVE ErrorIInv'
  OBVIOUS
<1>1. CASE UNCHANGED <<erPool, erMade, erErr, erWant>>
  BY <1>1, PoolStays DEF ErrorIInv
<1>2. ASSUME NEW code \in Codes, NEW cause \in BOOLEAN, Internal(code, cause) PROVE ErrorIInv'
  <2>1. PICK int \in Int : int = Int32(code)
    BY ErrorPoolAssumption, Int32IsInt
  <2>2. PICK details \in Int : /\ details = IF cause THEN Detailed(int, 0) ELSE 0
                               /\ int = 0 => details = 0
    BY DEF Detailed
  <2>3. erErr' = MarshalStatus(int, details) /\ erWant' = <<int, details>> /\ UNCHANGED <<erPool, erMade>>
    BY <1>2, <2>1, <2>2 DEF Internal
  <2>4. Carries(MarshalStatus(int, details), <<int, details>>)
    BY <2>2, FormsCarry
  <2>5. QED
    BY <2>3, <2>4, PoolStays
<1>3. CASE ForeignError
  <2>1. erWant' = <<>> /\ UNCHANGED <<erPool, erMade>>
    BY <1>3 DEF ForeignError
  <2>2. PICK code \in Int : \/ erErr' = [form |-> "text", code |-> 0, details |-> 0]
                           \/ erErr' = [form |-> "json", code |-> code, details |-> 0]
    BY <1>3, ErrorPoolAssumption DEF ForeignError, JsonOf
  <2>3. Carries(erErr', <<>>)
    BY <2>2 DEF Carries, Carried
  <2>4. QED
    BY <2>1, <2>3, PoolStays
<1>4. CASE Marshal
  <2>1. erErr # NoError /\ UNCHANGED <<erPool, erMade, erWant>>
    BY <1>4 DEF Marshal
  <2>2. CASE IsStatus(erErr)
    <3>1. erErr' = [form |-> "json", code |-> erErr.code, details |-> erErr.details]
      BY <1>4, <2>2 DEF Marshal, JsonOf
    <3>2. erErr.form \in {"nil", "status"} /\ erErr.code \in Int /\ erErr.details \in Int
      BY <2>2 DEF IsStatus, ErrorIInv, Carries, Carried
    <3>3. erWant # <<>> => erWant = <<erErr.code, erErr.details>>
      BY <3>2 DEF ErrorIInv, Carries
    <3>4. Carries(erErr', erWant')
      BY <2>1, <3>1, <3>2, <3>3 DEF Carries, Carried
    <3>5. QED
      BY <2>1, <3>4, PoolStays
  <2>3. CASE ~IsStatus(erErr)
    <3>1. erErr' = erErr
      BY <1>4, <2>3 DEF Marshal
    <3>2. QED
      BY <1>1, <2>1, <3>1
  <2>4. QED
    BY <2>2, <2>3
<1>5. CASE \E flag \in BOOLEAN : BuiltIn(flag)
  BY <1>1, <1>5 DEF BuiltIn
<1>6. CASE UNCHANGED errorVars
  BY <1>1, <1>6 DEF errorVars
<1>7. QED
  BY <1>2, <1>3, <1>4, <1>5, <1>6, AddErrorInv, WithDetailsInv DEF ErrorNext

\* A code names one error of the pool, for any bases, codes and word size, and
\* Parse finds code and details of an error the package made again after any
\* chain of Marshal and WithDetails (errors.go).
THEOREM ErrorsAreRecovered == ErrorSpec => []ErrorsRecovered
<1>1. ErrorIInv => ErrorsRecovered
  <2> SUFFICES ASSUME ErrorIInv, erWant # <<>> PROVE Parse(erErr) = erWant
    BY DEF ErrorIInv, PoolExact, ErrorsRecovered, ParseRecovers
  <2>1. erErr.form \in {"nil", "status", "json"} /\ Carries(erErr, erWant)
    BY DEF ErrorIInv, Carries, Carried
  <2>2. QED
    BY <2>1 DEF Carries, Parse, IsStatus
<1>2. QED
  BY ErrorInitInv, ErrorNextInv, <1>1, PTL DEF ErrorSpec

-----------------------------------------------------------------------------
(* AppBuilder: Build closes its source and stops what it started.          *)

\* The parts the builder was configured with, and the clean-ups they may leave.
PlanParts == {abPlan[i] : i \in 1..Len(abPlan)}
Cleanups == [part : PlanParts, isNil : BOOLEAN]

\* The clean-ups run so far are the last of the list, from its end.
StoppedFromEnd ==
  /\ abCleaning >= 0 /\ abOutcome = "built"
  /\ Len(abStopped) = Len(abCleanups) - abCleaning
  /\ \A i \in 1..Len(abStopped) : abStopped[i] = abCleanups[Len(abCleanups) + 1 - i].part

\* Every part started with a clean-up is in the list.
Listed ==
  \A i \in 1..(abStage - 1) :
    HasCleanup(abPlan[i]) => \E j \in 1..Len(abCleanups) : abCleanups[j].part = abPlan[i]

\* Nothing is stopped before Build has returned its function and it is called.
BuilderIInv ==
  /\ abStage \in Nat \ {0}
  /\ abCleanups \in Seq(Cleanups) /\ abStopped \in Seq(PlanParts)
  /\ abCleaning \in Int
  /\ (abCleaning = -1 /\ abStopped = <<>>) \/ StoppedFromEnd
  /\ SourceClosed /\ Listed

LEMMA BuilderInitInv == BuilderInit => BuilderIInv
BY DEF BuilderInit, BuilderIInv, SourceClosed, Listed

LEMMA BuilderNextInv == BuilderIInv /\ [BuilderNext]_builderVars => BuilderIInv'
<1> SUFFICES ASSUME BuilderIInv, [BuilderNext]_builderVars PROVE BuilderIInv'
  OBVIOUS
<1>0. PlanParts' = PlanParts /\ Cleanups' = Cleanups
  <2>1. UNCHANGED abPlan
    BY DEF BuilderNext, StartPart, PartFails, Built, CallCleanup, RunCleanup, builderVars
  <2>2. QED
    BY <2>1 DEF PlanParts, Cleanups
<1>1. CASE StartPart
  <2>1. /\ abOutcome = "building" /\ abStage \in 1..Len(abPlan)
        /\ abStage' = abStage + 1
        /\ UNCHANGED <<abPlan, abOutcome, abStopped, abCleaning>>
    BY <1>1 DEF StartPart, BuilderIInv
  <2>2. abPlan[abStage] \in PlanParts
    BY <2>1 DEF PlanParts
  <2>3. abCleanups' \in Seq(Cleanups)
    <3>1. \/ UNCHANGED abCleanups
          \/ \E isNil \in BOOLEAN :
               abCleanups' = Append(abCleanups, [part |-> abPlan[abStage], isNil |-> isNil])
      BY <1>1 DEF StartPart
    <3>2. \A isNil \in BOOLEAN : [part |-> abPlan[abStage], isNil |-> isNil] \in Cleanups
      BY <2>2 DEF Cleanups
    <3>3. \A c \in Cleanups : Append(abCleanups, c) \in Seq(Cleanups)
      BY DEF BuilderIInv
    <3>4. QED
      BY <3>1, <3>2, <3>3 DEF BuilderIInv
  <2>4. abCleaning = -1 /\ abStopped = <<>>
    BY <2>1 DEF BuilderIInv, StoppedFromEnd
  <2>5. Listed'
    <3>1. PICK part : part = abPlan[abStage]
      OBVIOUS
    <3>2. \/ ~HasCleanup(part) /\ abCleanups' = abCleanups
          \/ \E c \in Cleanups : c.part = part /\ abCleanups' = Append(abCleanups, c)
      <4>1. \A isNil \in BOOLEAN : /\ [part |-> part, isNil |-> isNil] \in Cleanups
                                 /\ [part |-> part, isNil |-> isNil].part = part
        BY <2>2, <3>1 DEF Cleanups
      <4>2. \/ ~HasCleanup(part) /\ abCleanups' = abCleanups
            \/ \E isNil \in BOOLEAN : abCleanups' = Append(abCleanups, [part |-> part, isNil |-> isNil])
        BY <1>1, <3>1 DEF StartPart
      <4>3. QED
        BY <4>1, <4>2
    <3>3. /\ Len(abCleanups) \in Nat /\ Len(abCleanups') >= Len(abCleanups) /\ Len(abCleanups') \in Nat
          /\ \A j \in 1..Len(abCleanups) : abCleanups'[j] = abCleanups[j]
          /\ HasCleanup(part) => /\ Len(abCleanups') = Len(abCleanups) + 1
                                /\ abCleanups'[Len(abCleanups) + 1].part = part
      <4>1. abCleanups \in Seq(Cleanups)
        BY DEF BuilderIInv
      <4>2. CASE ~HasCleanup(part) /\ abCleanups' = abCleanups
        BY <4>1, <4>2
      <4>3. CASE \E c \in Cleanups : c.part = part /\ abCleanups' = Append(abCleanups, c)
        <5>1. PICK c \in Cleanups : c.part = part /\ abCleanups' = Append(abCleanups, c)
          BY <4>3
        <5>2. /\ Len(abCleanups') = Len(abCleanups) + 1 /\ abCleanups'[Len(abCleanups) + 1] = c
              /\ \A j \in 1..Len(abCleanups) : abCleanups'[j] = abCleanups[j]
          BY <4>1, <5>1
        <5>3. QED
          BY <4>1, <5>1, <5>2
      <4>4. QED
        BY <3>2, <4>2, <4>3
    <3>4. ASSUME NEW i \in 1..(abStage' - 1), HasCleanup(abPlan[i])
          PROVE  \E j \in 1..Len(abCleanups') : abCleanups'[j].part = abPlan[i]
      <4>1. CASE i = abStage
        BY <3>1, <3>3, <3>4, <4>1
      <4>2. CASE i # abStage
        <5>1. i \in 1..(abStage - 1)
          BY <2>1, <4>2
        <5>2. PICK j \in 1..Len(abCleanups) : abCleanups[j].part = abPlan[i]
          BY <3>4, <5>1 DEF BuilderIInv, Listed
        <5>3. QED
          BY <3>3, <5>2
      <4>3. QED
        BY <4>1, <4>2
    <3>5. QED
      BY <2>1, <3>4 DEF Listed, HasCleanup
  <2>6. QED
    BY <1>0, <1>1, <2>1, <2>3, <2>4, <2>5 DEF StartPart, BuilderIInv, SourceClosed
<1>2. CASE PartFails
  <2>1. abSource' # "open"
    BY <1>2 DEF PartFails, Deferred
  <2>2. QED
    BY <1>0, <1>2, <2>1 DEF PartFails, BuilderIInv, SourceClosed, StoppedFromEnd, Listed
<1>3. CASE Built
  <2>1. abSource' # "open"
    BY <1>3 DEF Built, Deferred
  <2>2. QED
    BY <1>0, <1>3, <2>1 DEF Built, BuilderIInv, SourceClosed, StoppedFromEnd, Listed
<1>4. CASE CallCleanup
  <2>1. StoppedFromEnd'
    BY <1>4 DEF CallCleanup, BuilderIInv, StoppedFromEnd
  <2>2. QED
    BY <1>0, <1>4, <2>1 DEF CallCleanup, BuilderIInv, SourceClosed, Listed
<1>5. CASE RunCleanup
  <2> DEFINE cleanup == abCleanups[abCleaning]
  <2>1. /\ abCleaning \in 1..Len(abCleanups) /\ StoppedFromEnd
        /\ UNCHANGED <<abPlan, abStage, abOutcome, abSource, abCleanups>>
    BY <1>5 DEF RunCleanup, BuilderIInv, StoppedFromEnd
  <2>2. cleanup.part \in PlanParts
    <3>1. cleanup \in Cleanups
      BY <2>1 DEF BuilderIInv
    <3>2. QED
      BY <3>1 DEF Cleanups
  <2>3. \/ UNCHANGED <<abStopped, abCleaning>>
        \/ abStopped' = Append(abStopped, cleanup.part) /\ abCleaning' = abCleaning - 1
    BY <1>5 DEF RunCleanup, NextCleanup
  <2>4. CASE UNCHANGED <<abStopped, abCleaning>>
    BY <1>0, <2>1, <2>4 DEF BuilderIInv, SourceClosed, StoppedFromEnd, Listed
  <2>5. CASE abStopped' = Append(abStopped, cleanup.part) /\ abCleaning' = abCleaning - 1
    <3>1. abStopped' \in Seq(PlanParts) /\ Len(abStopped') = Len(abStopped) + 1
      BY <2>2, <2>5 DEF BuilderIInv
    <3>2. ASSUME NEW i \in 1..Len(abStopped') PROVE abStopped'[i] = abCleanups[Len(abCleanups) + 1 - i].part
      <4>1. CASE i \in 1..Len(abStopped)
        <5>1. abStopped'[i] = abStopped[i]
          BY <2>2, <2>5, <4>1 DEF BuilderIInv
        <5>2. QED
          BY <2>1, <4>1, <5>1 DEF StoppedFromEnd
      <4>2. CASE i = Len(abStopped) + 1
        <5>1. abStopped'[i] = cleanup.part
          BY <2>2, <2>5, <4>2 DEF BuilderIInv
        <5>2. Len(abCleanups) + 1 - i = abCleaning
          BY <2>1, <4>2 DEF BuilderIInv, StoppedFromEnd
        <5>3. QED
          BY <5>1, <5>2
      <4>3. QED
        BY <3>1, <4>1, <4>2 DEF BuilderIInv
    <3>3. abCleaning' \in Int /\ abCleaning' >= 0 /\ Len(abStopped') = Len(abCleanups') - abCleaning'
      BY <2>1, <2>5, <3>1 DEF BuilderIInv, StoppedFromEnd
    <3>4. StoppedFromEnd'
      BY <2>1, <3>2, <3>3 DEF StoppedFromEnd
    <3>5. QED
      BY <1>0, <2>1, <3>1, <3>3, <3>4 DEF BuilderIInv, SourceClosed, Listed
  <2>6. QED
    BY <2>3, <2>4, <2>5
<1>6. CASE UNCHANGED builderVars
  BY <1>0, <1>6 DEF builderVars, BuilderIInv, SourceClosed, StoppedFromEnd, Listed
<1>7. QED
  BY <1>1, <1>2, <1>3, <1>4, <1>5, <1>6 DEF BuilderNext

\* After the last clean-up nothing that had one goes on.
LEMMA AllAreStopped == BuilderIInv => AllStopped
<1> SUFFICES ASSUME BuilderIInv, abCleaning = 0, NEW part \in StillRuns PROVE part[1] = "gops"
  BY DEF AllStopped
<1>1. PICK i \in 1..(abStage - 1) : part = abPlan[i]
  BY DEF StillRuns, Started
<1>2. part \notin ToSet(abStopped) /\ (HasCleanup(part) \/ part[1] = "gops")
  BY DEF StillRuns
<1>3. ASSUME HasCleanup(part) PROVE FALSE
  <2>1. PICK j \in 1..Len(abCleanups) : abCleanups[j].part = part
    BY <1>1, <1>3 DEF BuilderIInv, Listed
  <2>2. StoppedFromEnd /\ Len(abCleanups) \in Nat /\ Len(abStopped) = Len(abCleanups)
    BY DEF BuilderIInv, StoppedFromEnd
  <2>3. PICK k \in 1..Len(abStopped) : j = Len(abCleanups) + 1 - k
    BY <2>1, <2>2
  <2>4. abStopped[k] = part
    BY <2>1, <2>2, <2>3 DEF StoppedFromEnd
  <2>5. QED
    BY <1>2, <2>3, <2>4 DEF ToSet, BuilderIInv
<1>4. QED
  BY <1>2, <1>3

\* For any number of functions added: the clean-up of a successful Build stops
\* in reverse order all it started but gops, and the source is closed whichever
\* way Build returned (builder.go).
THEOREM BuildCleansUp == BuilderSpec => []CleansUp
<1>1. BuilderIInv => CleansUp
  <2> SUFFICES ASSUME BuilderIInv, abOutcome = "built" PROVE StoppedInReverse
    BY AllAreStopped DEF CleansUp, BuilderIInv, StoppedInReverse
  <2> DEFINE started == [i \in DOMAIN abCleanups |-> abCleanups[i].part]
  <2>1. started \in Seq(PlanParts) /\ Len(started) = Len(abCleanups)
    <3>1. DOMAIN abCleanups = 1..Len(abCleanups) /\ Len(abCleanups) \in Nat
      BY DEF BuilderIInv
    <3>2. \A i \in 1..Len(abCleanups) : abCleanups[i] \in Cleanups
      BY DEF BuilderIInv
    <3>3. \A c \in Cleanups : c.part \in PlanParts
      BY DEF Cleanups
    <3>4. QED
      BY <3>1, <3>2, <3>3
  <2>2. /\ Len(abStopped) <= Len(started)
        /\ \A i \in 1..Len(abStopped) : abStopped[i] = started[Len(started) + 1 - i]
    <3>1. CASE abStopped = <<>>
      BY <2>1, <3>1
    <3>2. CASE StoppedFromEnd
      <4>1. Len(abStopped) \in Nat /\ Len(abCleanups) \in Nat /\ Len(abStopped) <= Len(abCleanups)
        BY <3>2 DEF BuilderIInv, StoppedFromEnd
      <4>2. ASSUME NEW i \in 1..Len(abStopped) PROVE abStopped[i] = started[Len(started) + 1 - i]
        <5>1. PICK j \in 1..Len(abCleanups) : j = Len(abCleanups) + 1 - i
          BY <4>1
        <5>2. started[j] = abCleanups[j].part
          BY <5>1 DEF BuilderIInv
        <5>3. QED
          BY <2>1, <3>2, <5>1, <5>2 DEF StoppedFromEnd
      <4>3. QED
        BY <2>1, <4>1, <4>2
    <3>3. QED
      BY <3>1, <3>2 DEF BuilderIInv
  <2> HIDE DEF started
  <2>3. Reverse(Reverse(abStopped)) = abStopped
    BY DEF Reverse, BuilderIInv
  <2>4. IsPrefix(abStopped, Reverse(started))
    BY <2>1, <2>2 DEF IsPrefix, Reverse, BuilderIInv
  <2>5. IsSuffix(Reverse(abStopped), started)
    BY <2>3, <2>4 DEF IsSuffix
  <2>6. QED
    BY <2>5 DEF StoppedInReverse, started
<1>2. QED
  BY BuilderInitInv, BuilderNextInv, <1>1, PTL DEF BuilderSpec

-----------------------------------------------------------------------------
(* KafkaClient: Close waits for every message, and runs stop.              *)

Live == {"consume", "sleep", "select"}

CountersTyped == kpNext \in 1..(MaxPublish + 1) /\ kpRun \in {"run", "ended"}

\* Close goes forward and takes the flag and the input with it; sarama's closed
\* input has nothing behind it.
CloseInv ==
  /\ kpClose # "idle" => kpClosed
  /\ kpInput = "closed" <=> kpClose = "done"
  /\ kpClose = "done" => kpFlight = {} /\ kpErrors = {}

\* Every message sarama took is in flight, failed and not yet read, or reported.
MessagesAccounted == kpFlight \cup kpErrors \cup kpReported = 1..(kpNext - 1)

\* A loop that nobody has stopped is the one Consumer.cancel stops.
CancelInv == \A i \in 1..MaxRuns :
  kcLoops[i] \in Live /\ i \notin kcCancelled => kcCancel = i

ProducerIInv ==
  /\ KafkaTypeOK /\ CountersTyped /\ CloseInv /\ MessagesAccounted
  /\ LatePublishRefused
KafkaIInv == ProducerIInv /\ CancelInv

LEMMA KafkaInitIInv == KafkaInit => KafkaIInv
<1> SUFFICES ASSUME KafkaInit PROVE KafkaIInv
  OBVIOUS
<1> USE KafkaAssumption DEF KafkaInit, ProducerInit, ConsumerInit
<1>1. KafkaTypeOK
  <2>1. kpFlight \cup kpReported \cup kpErrors = {}
    OBVIOUS
  <2>2. /\ kpPc \in [Publishers -> {"idle", "checked", "refused", "panicked"}]
        /\ kcLoops \in [1..MaxRuns -> {"none", "consume", "sleep", "select", "done"}]
    OBVIOUS
  <2>3. /\ kpClosed \in BOOLEAN /\ kpInput \in {"open", "stopping", "closed"}
        /\ kpClose \in {"idle", "set", "waiting", "done"}
    OBVIOUS
  <2>4. kcCancelled \subseteq 1..MaxRuns /\ kpLate \subseteq Publishers
    OBVIOUS
  <2>5. kcCancel \in 0..MaxRuns /\ kcRuns \in 0..MaxRuns /\ kcGroup \in {"open", "closed"}
    OBVIOUS
  <2>6. QED
    BY <2>1, <2>2, <2>3, <2>4, <2>5 DEF KafkaTypeOK
<1>2. CountersTyped
  BY DEF CountersTyped
<1>3. CloseInv /\ LatePublishRefused
  BY DEF CloseInv, LatePublishRefused
<1>4. CancelInv
  BY DEF CancelInv, Live
<1>5. MessagesAccounted
  <2>1. 1..(kpNext - 1) = {}
    OBVIOUS
  <2>2. QED
    BY <2>1 DEF MessagesAccounted
<1>6. QED
  BY <1>1, <1>2, <1>3, <1>4, <1>5 DEF ProducerIInv, KafkaIInv

-----------------------------------------------------------------------------
(* The producer.                                                           *)

\* Publishing: a call that reads closed after Close has returned is refused, and
\* a refused call goes no further.
LEMMA PublisherStep ==
  ASSUME ProducerIInv, NEW p \in Publishers, UNCHANGED consumerVars,
         PublishCheck(p) \/ MarshalFails(p) \/ PublishSend(p)
  PROVE  ProducerIInv'
<1> USE KafkaAssumption DEF ProducerIInv
<1>1. CASE PublishCheck(p)
  <2>1. KafkaTypeOK' /\ CountersTyped' /\ MessagesAccounted'
    BY <1>1 DEF PublishCheck, KafkaTypeOK, CountersTyped, MessagesAccounted, consumerVars
  <2>2. CloseInv' /\ LatePublishRefused'
    BY <1>1 DEF PublishCheck, KafkaTypeOK, CloseInv, LatePublishRefused
  <2>3. QED
    BY <2>1, <2>2
<1>2. CASE MarshalFails(p)
  <2>1. KafkaTypeOK' /\ CountersTyped' /\ MessagesAccounted'
    BY <1>2 DEF MarshalFails, KafkaTypeOK, CountersTyped, MessagesAccounted, consumerVars
  <2>2. CloseInv' /\ LatePublishRefused'
    BY <1>2 DEF MarshalFails, KafkaTypeOK, CloseInv, LatePublishRefused
  <2>3. QED
    BY <2>1, <2>2
<1>3. CASE PublishSend(p)
  <2>1. CountersTyped' /\ MessagesAccounted'
    BY <1>3 DEF PublishSend, KafkaTypeOK, CountersTyped, MessagesAccounted
  <2>2. KafkaTypeOK'
    BY <1>3 DEF PublishSend, KafkaTypeOK, CountersTyped, consumerVars
  <2>3. CloseInv' /\ LatePublishRefused'
    BY <1>3 DEF PublishSend, KafkaTypeOK, CloseInv, LatePublishRefused
  <2>4. QED
    BY <2>1, <2>2, <2>3
<1>4. QED
  BY <1>1, <1>2, <1>3

\* Reports: a message only moves on.
LEMMA ReportStep ==
  ASSUME ProducerIInv, NEW m \in 1..MaxPublish, UNCHANGED consumerVars,
         ReportSuccess(m) \/ ReportError(m) \/ RunReads(m) \/ CloseReads(m)
  PROVE  ProducerIInv'
<1> USE DEF ProducerIInv
<1>1. KafkaTypeOK' /\ CountersTyped'
  BY DEF ReportSuccess, ReportError, RunReads, CloseReads, KafkaTypeOK, CountersTyped,
         consumerVars
<1>2. MessagesAccounted'
  BY DEF ReportSuccess, ReportError, RunReads, CloseReads, MessagesAccounted
<1>3. CloseInv' /\ LatePublishRefused'
  BY DEF ReportSuccess, ReportError, RunReads, CloseReads, CloseInv, LatePublishRefused
<1>4. QED
  BY <1>1, <1>2, <1>3

LEMMA CloseStep ==
  ASSUME ProducerIInv, UNCHANGED consumerVars,
         RunEnds \/ CloseBegin \/ CloseAsks \/ CloseEnds
  PROVE  ProducerIInv'
<1> USE DEF ProducerIInv, RunEnds, CloseBegin, SetClosed, CloseAsks, CloseEnds
<1>1. KafkaTypeOK' /\ CountersTyped' /\ MessagesAccounted'
  BY DEF KafkaTypeOK, CountersTyped, MessagesAccounted, consumerVars
<1>2. CloseInv' /\ LatePublishRefused'
  BY DEF CloseInv, LatePublishRefused, KafkaTypeOK
<1>3. QED
  BY <1>1, <1>2

LEMMA ProducerNextIInv ==
  ASSUME KafkaIInv, ProducerNext, UNCHANGED consumerVars
  PROVE  KafkaIInv'
<1>1. ProducerIInv'
  BY PublisherStep, ReportStep, CloseStep DEF KafkaIInv, ProducerNext
<1>2. CancelInv'
  BY DEF KafkaIInv, CancelInv, consumerVars
<1>3. QED
  BY <1>1, <1>2 DEF KafkaIInv

-----------------------------------------------------------------------------
(* The consumer.                                                           *)

LEMMA ConsumerNextIInv ==
  ASSUME KafkaIInv, ConsumerNext, UNCHANGED producerVars
  PROVE  KafkaIInv'
<1> USE KafkaAssumption DEF KafkaIInv, ProducerIInv
<1>1. /\ CountersTyped' /\ CloseInv' /\ MessagesAccounted'
      /\ LatePublishRefused'
  BY DEF CountersTyped, CloseInv, MessagesAccounted, LatePublishRefused, producerVars
\* Run starts a loop only when cancel is nil: no loop is live and unstopped.
<1>2. CASE ConsumerRun
  <2>1. KafkaTypeOK'
    BY <1>2 DEF ConsumerRun, KafkaTypeOK, producerVars
  <2>2. CancelInv'
    BY <1>2 DEF ConsumerRun, MayRun, KafkaTypeOK, CancelInv, Live
  <2>3. QED
    BY <1>1, <2>1, <2>2
\* Close forgets cancel, and with it stops the one loop that was not stopped.
<1>3. CASE ConsumerClose
  <2>1. KafkaTypeOK'
    BY <1>3 DEF ConsumerClose, Cancelled, KafkaTypeOK, producerVars
  <2>2. CancelInv'
    BY <1>3 DEF ConsumerClose, Cancelled, KafkaTypeOK, CancelInv, Live
  <2>3. QED
    BY <1>1, <2>1, <2>2
<1>4. ASSUME NEW i \in 1..MaxRuns, ConsumeReturns(i) \/ SleepEnds(i) \/ LoopSelect(i)
      PROVE  KafkaIInv'
  <2>1. KafkaTypeOK'
    BY <1>4 DEF ConsumeReturns, SleepEnds, LoopSelect, KafkaTypeOK, producerVars
  <2>2. CancelInv'
    BY <1>4 DEF ConsumeReturns, SleepEnds, LoopSelect, KafkaTypeOK, CancelInv, Live
  <2>3. QED
    BY <1>1, <2>1, <2>2
<1>5. QED
  BY <1>2, <1>3, <1>4 DEF ConsumerNext

LEMMA KafkaNextIInv == KafkaIInv /\ [KafkaNext]_kafkaVars => KafkaIInv'
<1> SUFFICES ASSUME KafkaIInv, [KafkaNext]_kafkaVars PROVE KafkaIInv'
  OBVIOUS
<1>1. CASE UNCHANGED kafkaVars
  BY <1>1 DEF kafkaVars, producerVars, consumerVars, KafkaIInv, ProducerIInv, KafkaTypeOK,
     CountersTyped, CloseInv, MessagesAccounted, LatePublishRefused, CancelInv
<1>2. CASE KafkaNext
  BY <1>2, ProducerNextIInv, ConsumerNextIInv DEF KafkaNext
<1>3. QED
  BY <1>1, <1>2

LEMMA KafkaIInvSuffices == KafkaIInv => KafkaLifecycle
<1> SUFFICES ASSUME KafkaIInv PROVE OneConsumerLoop
  BY DEF KafkaIInv, ProducerIInv, KafkaLifecycle
<1>1. QED
  BY DEF KafkaIInv, CancelInv, OneConsumerLoop, Live

\* A publisher that calls after Close has returned is always refused, and Run and
\* Close, in any order and any number, leave at most one loop nobody has stopped
\* (producer.go Publish and Close, consumer.go Run and Close).
THEOREM LifecycleKept == KafkaSpec => []KafkaLifecycle
BY KafkaIInvSuffices, KafkaInitIInv, KafkaNextIInv, PTL DEF KafkaSpec

\* When Close of the producer has returned, each message sarama ever took has been
\* reported: none is in flight and no failure is unread, whatever the publishers do
\* meanwhile and whoever reads the reports (producer.go run and Close).
AllReported == kpClose = "done" => kpReported = 1..(kpNext - 1)

\* Close of the producer waits for the reports of all messages, for any
\* publishers and any number of messages.
THEOREM ClosedIsReported == KafkaSpec => []AllReported
<1>1. KafkaIInv => AllReported
  BY DEF KafkaIInv, ProducerIInv, CloseInv, MessagesAccounted, AllReported
<1>2. QED
  BY <1>1, KafkaInitIInv, KafkaNextIInv, PTL DEF KafkaSpec

-----------------------------------------------------------------------------
(* SqlTransaction: transactions are settled and connections given back.    *)

\* What a transaction may be in each place of TransactionCtx.
CallFitsStep(c) ==
  /\ c.step = "begin" => c.state = "none"
  /\ c.step \in {"run", "commit"} => c.state \in {"open", "failed", "rolledback"}
  /\ c.ended => c.timed
  /\ c.step = "returned" => (~c.err <=> c.state = "committed")
  /\ c.step = "returned" /\ c.state = "open" => IF c.timed THEN c.ended ELSE c.panicked

SqlIInv ==
  /\ SqlTypeOK
  /\ \A i \in DOMAIN txCalls : CallFitsStep(txCalls[i])
  /\ Cardinality(OpenTx) <= MaxOpenConns

LEMMA SqlInitIInv == SqlInit => SqlIInv
<1> SUFFICES ASSUME SqlInit PROVE SqlIInv
  OBVIOUS
<1>1. txTimeout \in BOOLEAN /\ txCalls = <<>>
  BY DEF SqlInit
<1>2. txCalls \in Seq(TxCalls) /\ Len(txCalls) = 0 /\ DOMAIN txCalls = {}
  BY <1>1
<1>3. OpenTx = {}
  BY <1>2 DEF OpenTx
<1>4. Cardinality(OpenTx) = 0
  BY <1>3, FS_EmptySet
<1>5. QED
  BY <1>1, <1>2, <1>4, SqlAssumption DEF SqlIInv, SqlTypeOK

LEMMA OpenTxFinite ==
  ASSUME SqlTypeOK
  PROVE  IsFiniteSet(OpenTx) /\ Cardinality(OpenTx) \in Nat
<1>1. DOMAIN txCalls = 1..Len(txCalls) /\ Len(txCalls) \in Nat
  BY DEF SqlTypeOK
<1>2. IsFiniteSet(1..Len(txCalls))
  BY <1>1, FS_Interval
<1>3. OpenTx \subseteq 1..Len(txCalls)
  BY <1>1 DEF OpenTx
<1>4. QED
  BY <1>2, <1>3, FS_Subset, FS_CardinalityType

\* A step of one call keeps the invariant when the call still fits, and takes a
\* connection only while one is left.
LEMMA OneCallGoesOn ==
  ASSUME SqlIInv, NEW i \in DOMAIN txCalls, NEW c \in TxCalls, CallFitsStep(c),
         txCalls' = [txCalls EXCEPT ![i] = c], UNCHANGED txTimeout,
         c.state = "open" => txCalls[i].state = "open" \/ Cardinality(OpenTx) < MaxOpenConns
  PROVE  SqlIInv'
<1>1. SqlTypeOK /\ txCalls \in Seq(TxCalls) /\ Len(txCalls) <= MaxCalls
  BY DEF SqlIInv, SqlTypeOK
<1>2. txCalls' \in Seq(TxCalls) /\ Len(txCalls') = Len(txCalls) /\ DOMAIN txCalls' = DOMAIN txCalls
  BY <1>1
<1>3. \A j \in DOMAIN txCalls : txCalls'[j] = IF j = i THEN c ELSE txCalls[j]
  BY <1>1
<1>4. IsFiniteSet(OpenTx) /\ Cardinality(OpenTx) \in Nat /\ Cardinality(OpenTx) <= MaxOpenConns
  BY <1>1, OpenTxFinite DEF SqlIInv
<1>5. Cardinality(OpenTx') <= MaxOpenConns
  <2>1. CASE c.state = "open" /\ txCalls[i].state # "open"
    <3>1. OpenTx' = OpenTx \cup {i}
      BY <1>2, <1>3, <2>1 DEF OpenTx
    <3>2. Cardinality(OpenTx \cup {i}) = IF i \in OpenTx THEN Cardinality(OpenTx)
                                         ELSE Cardinality(OpenTx) + 1
      BY <1>4, FS_AddElement
    <3>3. Cardinality(OpenTx) < MaxOpenConns
      BY <2>1
    <3>4. QED
      BY <1>4, <3>1, <3>2, <3>3, SqlAssumption
  <2>2. CASE ~(c.state = "open" /\ txCalls[i].state # "open")
    <3>1. OpenTx' \in SUBSET OpenTx
      BY <1>2, <1>3, <2>2 DEF OpenTx
    <3>2. Cardinality(OpenTx') \in Nat /\ Cardinality(OpenTx') <= Cardinality(OpenTx)
      BY <1>4, <3>1, FS_Subset, FS_CardinalityType
    <3>3. QED
      BY <1>4, <3>2, SqlAssumption
  <2>3. QED
    BY <2>1, <2>2
<1>6. \A j \in DOMAIN txCalls' : CallFitsStep(txCalls'[j])
  BY <1>2, <1>3 DEF SqlIInv
<1>7. QED
  BY <1>1, <1>2, <1>5, <1>6 DEF SqlIInv, SqlTypeOK

LEMMA CallTransactionIInv ==
  ASSUME SqlIInv, CallTransaction
  PROVE  SqlIInv'
<1>1. SqlTypeOK /\ txCalls \in Seq(TxCalls) /\ Len(txCalls) \in Nat /\ MaxCalls \in Nat
  BY SqlAssumption DEF SqlIInv, SqlTypeOK
<1>2. PICK timed \in {txTimeout, FALSE} :
        txCalls' = Append(txCalls, [step |-> "begin", timed |-> timed, ended |-> FALSE,
                                    panicked |-> FALSE, state |-> "none", err |-> FALSE])
  BY DEF CallTransaction
<1>3. timed \in BOOLEAN
  BY <1>2 DEF SqlIInv, SqlTypeOK
<1>4. PICK c : c = [step |-> "begin", timed |-> timed, ended |-> FALSE,
                    panicked |-> FALSE, state |-> "none", err |-> FALSE]
  OBVIOUS
<1>5. c \in TxCalls /\ c.state = "none" /\ CallFitsStep(c)
  BY <1>3, <1>4 DEF TxCalls, TxStates, CallFitsStep
<1>6. /\ txCalls' \in Seq(TxCalls) /\ Len(txCalls') = Len(txCalls) + 1
      /\ DOMAIN txCalls' = DOMAIN txCalls \cup {Len(txCalls) + 1}
      /\ \A j \in DOMAIN txCalls : txCalls'[j] = txCalls[j]
      /\ txCalls'[Len(txCalls) + 1] = c
  BY <1>1, <1>2, <1>4, <1>5
<1>7. OpenTx' = OpenTx
  BY <1>5, <1>6 DEF OpenTx
<1>8. \A j \in DOMAIN txCalls' : CallFitsStep(txCalls'[j])
  BY <1>5, <1>6 DEF SqlIInv
<1>9. Len(txCalls') <= MaxCalls /\ txTimeout' = txTimeout
  <2>1. Len(txCalls) < MaxCalls /\ txTimeout' = txTimeout
    BY DEF CallTransaction
  <2>2. QED
    BY <1>1, <1>6, <2>1
<1>10. txTimeout \in BOOLEAN /\ Cardinality(OpenTx) <= MaxOpenConns
  BY DEF SqlIInv, SqlTypeOK
<1>11. SqlTypeOK'
  BY <1>6, <1>9, <1>10 DEF SqlTypeOK
<1>12. Cardinality(OpenTx') <= MaxOpenConns
  BY <1>7, <1>10
<1>13. QED
  BY <1>8, <1>11, <1>12 DEF SqlIInv

LEMMA SqlNextIInv == SqlIInv /\ [SqlNext]_txVars => SqlIInv'
<1> SUFFICES ASSUME SqlIInv, [SqlNext]_txVars PROVE SqlIInv'
  OBVIOUS
<1>1. CASE UNCHANGED txVars
  BY <1>1 DEF txVars, SqlIInv, SqlTypeOK, OpenTx
<1>2. CASE CallTransaction
  BY <1>2, CallTransactionIInv
<1>3. ASSUME NEW i \in DOMAIN txCalls,
             \/ BeginTx(i) \/ BeginFails(i) \/ TimeoutPasses(i) \/ RollsBack(i)
             \/ FunctionEnds(i) \/ Commit(i)
      PROVE  SqlIInv'
  <2>1. PICK c : c = txCalls[i] /\ c \in TxCalls /\ CallFitsStep(c)
    BY DEF SqlIInv, SqlTypeOK
  <2>2. ASSUME NEW step, NEW next \in TxCalls, GoesOn(i, step, next), CallFitsStep(next),
               next.state = "open" => c.state = "open" \/ Cardinality(OpenTx) < MaxOpenConns
        PROVE  SqlIInv'
    BY <2>1, <2>2, OneCallGoesOn DEF GoesOn
  <2> DEFINE Fits(next) ==
        next \in TxCalls /\ CallFitsStep(next) /\ (next.state = "open" => c.state = "open")
  <2>3. CASE BeginTx(i)
    <3>1. PICK next : next = [c EXCEPT !.step = "run", !.state = "open"]
      OBVIOUS
    <3>2. GoesOn(i, "begin", next) /\ Cardinality(OpenTx) < MaxOpenConns
      BY <2>1, <2>3, <3>1 DEF BeginTx
    <3>3. next \in TxCalls /\ CallFitsStep(next)
      BY <2>1, <3>1 DEF CallFitsStep, TxCalls, TxStates
    <3>4. QED
      BY <2>2, <3>2, <3>3
  <2>4. CASE BeginFails(i)
    <3>1. PICK next : next = [c EXCEPT !.step = "run", !.state = "failed"]
      OBVIOUS
    <3>2. GoesOn(i, "begin", next)
      BY <2>1, <2>4, <3>1 DEF BeginFails
    <3>3. Fits(next)
      BY <2>1, <3>1 DEF CallFitsStep, TxCalls, TxStates
    <3>4. QED
      BY <2>2, <3>2, <3>3
  <2>5. CASE TimeoutPasses(i)
    <3>1. PICK next : next = [c EXCEPT !.ended = TRUE]
      OBVIOUS
    <3>2. GoesOn(i, c.step, next) /\ c.timed /\ c.step \in {"run", "commit"}
      BY <2>1, <2>5, <3>1 DEF TimeoutPasses
    <3>3. Fits(next)
      BY <2>1, <3>1, <3>2 DEF CallFitsStep, TxCalls
    <3>4. QED
      BY <2>2, <3>2, <3>3
  <2>6. CASE RollsBack(i)
    <3>1. PICK next : next = [c EXCEPT !.state = "rolledback"]
      OBVIOUS
    <3>2. GoesOn(i, c.step, next) /\ c.state = "open"
      BY <2>1, <2>6, <3>1 DEF RollsBack
    <3>3. Fits(next)
      BY <2>1, <3>1, <3>2 DEF CallFitsStep, TxCalls, TxStates
    <3>4. QED
      BY <2>2, <3>2, <3>3
  <2>7. CASE FunctionOK(i)
    <3>1. PICK next : next = [c EXCEPT !.step = "commit"]
      OBVIOUS
    <3>2. GoesOn(i, "run", next) /\ c.step = "run"
      BY <2>1, <2>7, <3>1 DEF FunctionOK, GoesOn
    <3>3. Fits(next)
      BY <2>1, <3>1, <3>2 DEF CallFitsStep, TxCalls
    <3>4. QED
      BY <2>2, <3>2, <3>3
  <2>8. CASE FunctionFails(i)
    <3>1. PICK next : next = ComesBack(c, IF c.state = "open" THEN "rolledback" ELSE c.state, TRUE)
      OBVIOUS
    <3>2. GoesOn(i, "run", next) /\ c.step = "run"
      BY <2>1, <2>8, <3>1 DEF FunctionFails, GoesOn
    <3>3. Fits(next)
      BY <2>1, <3>1, <3>2 DEF ComesBack, CallFitsStep, TxCalls, TxStates
    <3>4. QED
      BY <2>2, <3>2, <3>3
  <2>9. CASE FunctionPanics(i)
    <3>1. PICK next : next = [ComesBack(c, c.state, TRUE) EXCEPT !.panicked = TRUE]
      OBVIOUS
    <3>2. GoesOn(i, "run", next) /\ c.step = "run"
      BY <2>1, <2>9, <3>1 DEF FunctionPanics, GoesOn
    <3>3. Fits(next)
      BY <2>1, <3>1, <3>2 DEF ComesBack, CallFitsStep, TxCalls, TxStates
    <3>4. QED
      BY <2>2, <3>2, <3>3
  <2>10. CASE Commit(i)
    <3>1. CASE c.state = "open" /\ ~c.ended
      <4>1. PICK state \in {"committed", "unknown"} :
              GoesOn(i, "commit", ComesBack(c, state, state = "unknown"))
        BY <2>1, <2>10, <3>1 DEF Commit
      <4>2. PICK next : next = ComesBack(c, state, state = "unknown")
        OBVIOUS
      <4>3. Fits(next)
        BY <2>1, <4>1, <4>2 DEF ComesBack, CallFitsStep, TxCalls, TxStates
      <4>4. QED
        BY <2>2, <4>1, <4>2, <4>3
    <3>2. CASE ~(c.state = "open" /\ ~c.ended)
      <4>1. PICK next : next = ComesBack(c, c.state, TRUE)
        OBVIOUS
      <4>2. GoesOn(i, "commit", next) /\ c.step = "commit"
        BY <2>1, <2>10, <3>2, <4>1 DEF Commit, GoesOn
      <4>3. Fits(next)
        BY <2>1, <3>2, <4>1, <4>2 DEF ComesBack, CallFitsStep, TxCalls, TxStates
      <4>4. QED
        BY <2>2, <4>2, <4>3
    <3>3. QED
      BY <3>1, <3>2
  <2>11. QED
    BY <1>3, <2>3, <2>4, <2>5, <2>6, <2>7, <2>8, <2>9, <2>10 DEF FunctionEnds
<1>4. QED
  BY <1>1, <1>2, <1>3 DEF SqlNext

\* However many calls there are, and whatever fails, TransactionCtx returns nil
\* exactly for a transaction it knows committed; what a returned call leaves open
\* is a transaction whose context has ended, or one of an f that panicked without
\* a timeout; the pool's limit is never exceeded (db.go:186-213).
THEOREM TransactionsAreSettled == SqlSpec => []TransactionsSettled
<1>1. SqlIInv => TransactionsSettled
  BY DEF SqlIInv, CallFitsStep, TransactionsSettled, NilMeansCommitted, ConnectionReturned
<1>2. QED
  BY <1>1, SqlInitIInv, SqlNextIInv, PTL DEF SqlSpec

\* Every variable keeps its type, and the calls their bound.
THEOREM SqlTypeCorrect == SqlSpec => []SqlTypeOK
<1>1. SqlIInv => SqlTypeOK
  BY DEF SqlIInv
<1>2. QED
  BY <1>1, SqlInitIInv, SqlNextIInv, PTL DEF SqlSpec

-----------------------------------------------------------------------------
(* Observable: once callbacks run once, and Off removes one callback, for  *)
(* any goroutines, events and functions and any number of callbacks and    *)
(* calls.  What its loops over a list do is found by counting up to the    *)
(* list's length (CountUp).                                                *)

\* What Omit has kept of a list, element by element.
LEMMA OmitIs ==
  ASSUME NEW S, NEW s \in Seq(S), NEW set
  PROVE  \E kept : /\ Omit(s, set) = kept[Len(s)] /\ kept[0] = <<>>
                   /\ \A i \in 1..Len(s) : kept[i] = IF s[i] \in set THEN kept[i - 1]
                                                     ELSE Append(kept[i - 1], s[i])
<1> DEFINE n == Len(s)
           At(f, i) == IF i = 0 THEN <<>> ELSE IF s[i] \in set THEN f[i - 1] ELSE Append(f[i - 1], s[i])
           T == {m \in 0..n : \E f : DOMAIN f = 0..n /\ f = [i \in 0..n |-> f[i]] /\ \A i \in 0..m : f[i] = At(f, i)}
<1>1. n \in Nat
  OBVIOUS
<1>2. 0 \in T
  <2>1. PICK f : f = [i \in 0..n |-> <<>>]
    OBVIOUS
  <2>2. f[0] = At(f, 0)
    BY <1>1, <2>1
  <2>3. QED
    BY <1>1, <2>1, <2>2
<1>3. ASSUME NEW m \in 1..n, m - 1 \in T PROVE m \in T
  <2>1. PICK f : DOMAIN f = 0..n /\ f = [i \in 0..n |-> f[i]] /\ \A i \in 0..(m - 1) : f[i] = At(f, i)
    BY <1>3
  <2>2. PICK v : v = At(f, m)
    OBVIOUS
  <2>3. PICK g : g = [i \in 0..n |-> IF i = m THEN v ELSE f[i]]
    OBVIOUS
  <2>4. \A i \in 0..n : g[i] = IF i = m THEN v ELSE f[i]
    BY <2>3
  <2>5. ASSUME NEW i \in 0..m PROVE g[i] = At(g, i)
    <3>1. i \in 0..n /\ (i # 0 => i - 1 \in 0..n /\ i - 1 # m) /\ (i # m => i \in 0..(m - 1))
      BY <1>1
    <3>2. At(g, i) = At(f, i)
      BY <2>4, <3>1
    <3>3. QED
      BY <2>1, <2>2, <2>4, <3>1, <3>2
  <2>6. DOMAIN g = 0..n /\ g = [i \in 0..n |-> g[i]]
    BY <2>3, <2>4
  <2>7. QED
    BY <2>5, <2>6
<1>4. n \in T
  <2> HIDE DEF T
  <2>1. 0..n \subseteq T
    BY <1>1, <1>2, <1>3, CountUp
  <2>2. QED
    BY <1>1, <2>1
<1>5. PICK f : f = [i \in 0..n |-> f[i]] /\ \A i \in 0..n : f[i] = At(f, i)
  BY <1>4
<1>6. f = [i \in 0..n |-> At(f, i)]
  BY <1>5
<1>7. PICK kept : kept = [i \in 0..n |-> At(kept, i)] /\ Omit(s, set) = kept[n]
  BY <1>6 DEF Omit
<1>8. ASSUME NEW i \in 0..n PROVE kept[i] = At(kept, i)
  BY <1>7
<1>9. 0 \in 0..n /\ \A i \in 1..n : i \in 0..n /\ i # 0
  BY <1>1
<1>10. QED
  BY <1>7, <1>8, <1>9

\* What Omit leaves are elements of the list outside the set, each as often as there.
LEMMA OmitKeeps ==
  ASSUME NEW S, NEW s \in Seq(S), NEW set
  PROVE  /\ Omit(s, set) \in Seq(S)
         /\ \A a \in 1..Len(Omit(s, set)) : Omit(s, set)[a] \notin set
         /\ IsInjective(s) => IsInjective(Omit(s, set))
<1> DEFINE n == Len(s)
<1>1. PICK kept : /\ Omit(s, set) = kept[n] /\ kept[0] = <<>>
                  /\ \A i \in 1..n : kept[i] = IF s[i] \in set THEN kept[i - 1]
                                               ELSE Append(kept[i - 1], s[i])
  BY OmitIs
<1> DEFINE From(i) == /\ kept[i] \in Seq(S)
                      /\ \A a \in 1..Len(kept[i]) : \E j \in 1..i : kept[i][a] = s[j] /\ s[j] \notin set
                      /\ IsInjective(s) => IsInjective(kept[i])
           T == {i \in 0..n : From(i)}
<1>2. n \in Nat /\ DOMAIN s = 1..n
  OBVIOUS
<1>3. From(0)
  BY <1>1 DEF IsInjective
<1>4. ASSUME NEW i \in 1..n, From(i - 1) PROVE From(i)
  <2>1. PICK l \in Seq(S) : l = kept[i - 1]
    BY <1>4
  <2>2. /\ \A a \in 1..Len(l) : \E j \in 1..(i - 1) : l[a] = s[j] /\ s[j] \notin set
        /\ IsInjective(s) => IsInjective(l)
    BY <1>4, <2>1
  <2>3. \A a \in 1..Len(l) : \E j \in 1..i : l[a] = s[j] /\ s[j] \notin set
    <3>1. \A j \in 1..(i - 1) : j \in 1..i
      OBVIOUS
    <3>2. QED
      BY <2>2, <3>1, Zenon
  <2>4. CASE s[i] \in set
    <3>1. kept[i] = l
      BY <1>1, <2>1, <2>4
    <3>2. QED
      BY <2>2, <2>3, <3>1
  <2>5. CASE s[i] \notin set
    <3>1. PICK m : m = kept[i]
      OBVIOUS
    <3>2. s[i] \in S /\ m = Append(l, s[i])
      <4>1. s[i] \in S
        OBVIOUS
      <4>2. QED
        BY <1>1, <2>1, <2>5, <3>1, <4>1, Zenon
    <3>3. /\ m \in Seq(S) /\ Len(m) = Len(l) + 1
          /\ m[Len(l) + 1] = s[i] /\ \A a \in 1..Len(l) : m[a] = l[a]
      <4>1. PICK v \in S : v = s[i]
        BY <3>2
      <4>2. /\ Append(l, v) \in Seq(S) /\ Len(Append(l, v)) = Len(l) + 1
            /\ Append(l, v)[Len(l) + 1] = v /\ \A a \in 1..Len(l) : Append(l, v)[a] = l[a]
        BY Appended
      <4>3. m = Append(l, v)
        BY <3>2, <4>1, Zenon
      <4>4. QED
        BY <4>1, <4>2, <4>3, Zenon
    <3>4. \A a \in 1..Len(m) : \E j \in 1..i : m[a] = s[j] /\ s[j] \notin set
      <4>1. \A a \in 1..Len(m) : a \in 1..Len(l) \/ a = Len(l) + 1
        BY <3>3
      <4>2. i \in 1..i
        BY <1>2
      <4>3. QED
        <5>1. \A a \in 1..Len(l) : \E j \in 1..i : m[a] = s[j] /\ s[j] \notin set
          BY <2>3, <3>3
        <5>2. m[Len(l) + 1] = s[i] /\ s[i] \notin set
          BY <2>5, <3>3
        <5>3. QED
          BY <4>1, <4>2, <5>1, <5>2, Zenon
    <3>5. ASSUME IsInjective(s) PROVE IsInjective(m)
      <4>1. \A j \in 1..(i - 1) : s[j] # s[i]
        BY <1>2, <3>5 DEF IsInjective
      <4>2. \A a \in 1..Len(l) : l[a] # s[i]
        BY <2>2, <4>1
      <4>3. \A a, b \in 1..Len(l) : l[a] = l[b] => a = b
        BY <2>2, <3>5 DEF IsInjective
      <4>4. QED
        BY <3>3, <4>2, <4>3 DEF IsInjective
    <3>6. QED
      BY <3>1, <3>3, <3>4, <3>5
  <2>6. QED
    BY <2>4, <2>5
<1> HIDE DEF From
<1>5. From(n)
  <2>1. 0 \in T
    BY <1>2, <1>3
  <2>2. \A i \in 1..n : i - 1 \in T => i \in T
    BY <1>2, <1>4
  <2>3. 0..n \subseteq T
    BY <1>2, <2>1, <2>2, CountUp
  <2>4. QED
    BY <1>2, <2>3
<1>6. QED
  BY <1>1, <1>5 DEF From

\* A list of which the set names at most the k-th: k is past its end if it names none.
LEMMA OmitOne ==
  ASSUME NEW S, NEW s \in Seq(S), NEW set, NEW k \in 1..(Len(s) + 1),
         \A j \in 1..Len(s) : s[j] \in set <=> j = k
  PROVE  /\ Len(Omit(s, set)) = IF k <= Len(s) THEN Len(s) - 1 ELSE Len(s)
         /\ \A a \in 1..Len(Omit(s, set)) : Omit(s, set)[a] = IF a < k THEN s[a] ELSE s[a + 1]
<1> DEFINE n == Len(s)
<1>1. PICK kept : /\ Omit(s, set) = kept[n] /\ kept[0] = <<>>
                  /\ \A i \in 1..n : kept[i] = IF s[i] \in set THEN kept[i - 1]
                                               ELSE Append(kept[i - 1], s[i])
  BY OmitIs
<1> DEFINE Size(i) == IF k <= i THEN i - 1 ELSE i
           From(i) == /\ kept[i] \in Seq(S) /\ Len(kept[i]) = Size(i)
                      /\ \A a \in 1..Size(i) : kept[i][a] = IF a < k THEN s[a] ELSE s[a + 1]
           T == {i \in 0..n : From(i)}
<1>2. n \in Nat
  OBVIOUS
<1>3. From(0)
  BY <1>1, <1>2
<1>4. ASSUME NEW i \in 1..n, From(i - 1) PROVE From(i)
  <2>1. PICK l \in Seq(S) : l = kept[i - 1] /\ Len(l) = Size(i - 1)
                            /\ \A a \in 1..Size(i - 1) : l[a] = IF a < k THEN s[a] ELSE s[a + 1]
    BY <1>4
  <2>2. CASE i = k
    <3>1. kept[i] = l
      BY <1>1, <2>1, <2>2
    <3>2. Size(i) = Size(i - 1)
      BY <1>2, <2>2
    <3>3. QED
      BY <2>1, <3>1, <3>2
  <2>3. CASE i # k
    <3>1. PICK m : m = kept[i]
      OBVIOUS
    <3>2. Size(i) = Size(i - 1) + 1 /\ Size(i - 1) \in Nat
      BY <1>2, <2>3
    <3>3. s[i] \in S /\ m = Append(l, s[i])
      <4>1. s[i] \in S /\ s[i] \notin set
        BY <2>3
      <4>2. QED
        BY <1>1, <2>1, <3>1, <4>1, Zenon
    <3>4. /\ m \in Seq(S) /\ Len(m) = Len(l) + 1
          /\ m[Len(l) + 1] = s[i] /\ \A a \in 1..Len(l) : m[a] = l[a]
      <4>1. PICK v \in S : v = s[i]
        BY <3>3
      <4>2. /\ Append(l, v) \in Seq(S) /\ Len(Append(l, v)) = Len(l) + 1
            /\ Append(l, v)[Len(l) + 1] = v /\ \A a \in 1..Len(l) : Append(l, v)[a] = l[a]
        BY Appended
      <4>3. m = Append(l, v)
        BY <3>3, <4>1, Zenon
      <4>4. QED
        BY <4>1, <4>2, <4>3, Zenon
    <3>5. IF Size(i) < k THEN Size(i) = i ELSE Size(i) + 1 = i
      BY <1>2, <2>3
    <3>6. ASSUME NEW a \in 1..Size(i) PROVE m[a] = IF a < k THEN s[a] ELSE s[a + 1]
      <4>1. CASE a = Size(i)
        BY <2>1, <3>2, <3>4, <3>5, <4>1
      <4>2. CASE a # Size(i)
        <5>1. a \in 1..Size(i - 1)
          BY <3>2, <4>2
        <5>2. QED
          BY <2>1, <3>4, <5>1
      <4>3. QED
        BY <4>1, <4>2
    <3>7. QED
      BY <2>1, <3>1, <3>2, <3>4, <3>6
  <2>4. QED
    BY <2>2, <2>3
<1> HIDE DEF From
<1>5. From(n)
  <2>1. 0 \in T
    BY <1>2, <1>3
  <2>2. \A i \in 1..n : i - 1 \in T => i \in T
    BY <1>2, <1>4
  <2>3. 0..n \subseteq T
    BY <1>2, <2>1, <2>2, CountUp
  <2>4. QED
    BY <1>2, <2>3
<1>6. QED
  BY <1>1, <1>5 DEF From

\* Removed, element by element.
LEMMA RemovedIs ==
  ASSUME NEW cbs, Len(cbs) \in Nat, NEW fn
  PROVE  \E after : /\ Removed(cbs, fn) = after[Len(cbs)]
                    /\ after[0] = [arr |-> cbs, len |-> Len(cbs), bad |-> FALSE]
                    /\ \A i \in 1..Len(cbs) : after[i] = Considered(after[i - 1], i, Len(cbs), fn)
<1> DEFINE n == Len(cbs)
           At(f, i) == IF i = 0 THEN [arr |-> cbs, len |-> n, bad |-> FALSE]
                       ELSE Considered(f[i - 1], i, n, fn)
           T == {m \in 0..n : \E f : DOMAIN f = 0..n /\ f = [i \in 0..n |-> f[i]] /\ \A i \in 0..m : f[i] = At(f, i)}
<1>1. n \in Nat
  OBVIOUS
<1>2. 0 \in T
  <2>1. PICK v : v = [arr |-> cbs, len |-> n, bad |-> FALSE]
    OBVIOUS
  <2>2. PICK f : f = [i \in 0..n |-> v]
    OBVIOUS
  <2>3. f[0] = At(f, 0)
    BY <1>1, <2>1, <2>2
  <2>4. DOMAIN f = 0..n /\ f = [i \in 0..n |-> f[i]]
    BY <2>2
  <2>5. \A i \in 0..0 : f[i] = At(f, i)
    BY <2>3
  <2>6. \E h : DOMAIN h = 0..n /\ h = [i \in 0..n |-> h[i]] /\ \A i \in 0..0 : h[i] = At(h, i)
    BY <2>4, <2>5, Zenon
  <2>7. 0 \in 0..n
    BY <1>1
  <2>8. QED
    BY <2>6, <2>7
<1>3. ASSUME NEW m \in 1..n, m - 1 \in T PROVE m \in T
  <2>1. PICK f : DOMAIN f = 0..n /\ f = [i \in 0..n |-> f[i]] /\ \A i \in 0..(m - 1) : f[i] = At(f, i)
    BY <1>3
  <2>2. PICK v : v = At(f, m)
    OBVIOUS
  <2>3. PICK g : g = [i \in 0..n |-> IF i = m THEN v ELSE f[i]]
    OBVIOUS
  <2>4. \A i \in 0..n : g[i] = IF i = m THEN v ELSE f[i]
    BY <2>3
  <2>5. ASSUME NEW i \in 0..m PROVE g[i] = At(g, i)
    <3>1. i \in 0..n /\ (i # 0 => i - 1 \in 0..n /\ i - 1 # m) /\ (i # m => i \in 0..(m - 1))
      BY <1>1
    <3>2. At(g, i) = At(f, i)
      BY <2>4, <3>1
    <3>3. QED
      BY <2>1, <2>2, <2>4, <3>1, <3>2
  <2>6. DOMAIN g = 0..n /\ g = [i \in 0..n |-> g[i]]
    BY <2>3, <2>4
  <2>7. QED
    BY <2>5, <2>6
<1>4. n \in T
  <2> HIDE DEF T
  <2>1. 0..n \subseteq T
    BY <1>1, <1>2, <1>3, CountUp
  <2>2. QED
    BY <1>1, <2>1
<1>5. PICK f : f = [i \in 0..n |-> f[i]] /\ \A i \in 0..n : f[i] = At(f, i)
  BY <1>4
<1>6. f = [i \in 0..n |-> At(f, i)]
  BY <1>5
<1>7. PICK after : after = [i \in 0..n |-> At(after, i)] /\ Removed(cbs, fn) = after[n]
  BY <1>6 DEF Removed
<1>8. ASSUME NEW i \in 0..n PROVE after[i] = At(after, i)
  BY <1>7
<1>9. 0 \in 0..n /\ \A i \in 1..n : i \in 0..n /\ i # 0
  BY <1>1
<1>10. QED
  BY <1>7, <1>8, <1>9

Loops(S, n) == [arr : [1..n -> S], len : 0..n, bad : BOOLEAN]
DifferentIn(r) == \A a, b \in 1..r.len : r.arr[a] = r.arr[b] => a = b

\* A splice takes one element of the list out.
LEMMA SplicedKeeps ==
  ASSUME NEW S, NEW n \in Nat, NEW r \in Loops(S, n), NEW i \in 1..n, i <= r.len
  PROVE  /\ Spliced(r, i, n) \in Loops(S, n)
         /\ Spliced(r, i, n).len = r.len - 1 /\ Spliced(r, i, n).bad = r.bad
         /\ \A j \in 1..n : Spliced(r, i, n).arr[j] = IF i <= j /\ j < r.len THEN r.arr[j + 1] ELSE r.arr[j]
         /\ DifferentIn(r) => DifferentIn(Spliced(r, i, n))
<1>1. PICK arr \in [1..n -> S], len \in 0..n, bad \in BOOLEAN :
        r = [arr |-> arr, len |-> len, bad |-> bad] /\ r.arr = arr /\ r.len = len /\ r.bad = bad
  BY DEF Loops
<1>2. PICK s : s = Spliced(r, i, n)
  OBVIOUS
<1>3. /\ s.len = len - 1 /\ s.bad = bad /\ s = [arr |-> s.arr, len |-> s.len, bad |-> s.bad]
      /\ s.arr = [j \in 1..n |-> IF i <= j /\ j < len THEN arr[j + 1] ELSE arr[j]]
  BY <1>1, <1>2 DEF Spliced
<1>4. /\ \A j \in 1..n : s.arr[j] = IF i <= j /\ j < len THEN arr[j + 1] ELSE arr[j]
      /\ s.arr \in [1..n -> S]
  <2>1. \A j \in 1..n : (IF i <= j /\ j < len THEN arr[j + 1] ELSE arr[j]) \in S
    OBVIOUS
  <2>2. QED
    BY <1>3, <2>1
<1>5. len - 1 \in 0..n
  BY <1>1
<1>6. s \in Loops(S, n)
  BY <1>3, <1>4, <1>5 DEF Loops
<1>7. ASSUME DifferentIn(r), NEW a \in 1..(len - 1), NEW b \in 1..(len - 1), s.arr[a] = s.arr[b]
      PROVE  a = b
  <2>1. \A x, y \in 1..len : arr[x] = arr[y] => x = y
    BY <1>1, <1>7 DEF DifferentIn
  <2>2. PICK x \in 1..len : s.arr[a] = arr[x] /\ x = IF i <= a THEN a + 1 ELSE a
    BY <1>4, <1>5
  <2>3. PICK y \in 1..len : s.arr[b] = arr[y] /\ y = IF i <= b THEN b + 1 ELSE b
    BY <1>4, <1>5
  <2>4. x = y
    BY <1>7, <2>1, <2>2, <2>3
  <2>5. QED
    BY <2>2, <2>3, <2>4
<1>8. DifferentIn(r) => DifferentIn(s)
  BY <1>3, <1>7 DEF DifferentIn
<1>9. QED
  BY <1>1, <1>2, <1>3, <1>4, <1>6, <1>8

\* What the loop of remove leaves: elements of the list, each as often as there.
LEMMA RemovedKeeps ==
  ASSUME NEW S, NEW cbs \in Seq(S), NEW fn
  PROVE  LET r == Removed(cbs, fn)
         IN  /\ r \in Loops(S, Len(cbs))
             /\ SubSeq(r.arr, 1, r.len) \in Seq(S)
             /\ IsInjective(cbs) => IsInjective(SubSeq(r.arr, 1, r.len))
<1>1. PICK n \in Nat : n = Len(cbs)
  OBVIOUS
<1>2. PICK after : /\ Removed(cbs, fn) = after[n]
                   /\ after[0] = [arr |-> cbs, len |-> n, bad |-> FALSE]
                   /\ \A i \in 1..n : after[i] = Considered(after[i - 1], i, n, fn)
  BY <1>1, RemovedIs
<1> DEFINE From(i) == after[i] \in Loops(S, n) /\ (IsInjective(cbs) => DifferentIn(after[i]))
           T == {i \in 0..n : From(i)}
<1>3. From(0)
  <2>1. cbs \in [1..n -> S]
    BY <1>1
  <2>2. PICK r : r = [arr |-> cbs, len |-> n, bad |-> FALSE]
    OBVIOUS
  <2>3. r = after[0] /\ r.arr = cbs /\ r.len = n /\ r.bad = FALSE /\ n \in 0..n
    BY <1>2, <2>2
  <2>4. r \in Loops(S, n)
    BY <2>1, <2>2, <2>3 DEF Loops
  <2>5. QED
    BY <2>1, <2>3, <2>4 DEF DifferentIn, IsInjective
<1>4. ASSUME NEW i \in 1..n, From(i - 1) PROVE From(i)
  <2>1. PICK r : r = after[i - 1] /\ r \in Loops(S, n) /\ (IsInjective(cbs) => DifferentIn(r))
    BY <1>4
  <2>2. after[i] = Considered(r, i, n, fn)
    BY <1>2, <2>1
  <2>3. CASE Considered(r, i, n, fn) = r
    BY <2>1, <2>2, <2>3
  <2>4. CASE Considered(r, i, n, fn) = [r EXCEPT !.bad = TRUE]
    <3>1. PICK s : s = [r EXCEPT !.bad = TRUE]
      OBVIOUS
    <3>2. s \in Loops(S, n) /\ s.arr = r.arr /\ s.len = r.len
      BY <2>1, <3>1 DEF Loops
    <3>3. IsInjective(cbs) => DifferentIn(s)
      BY <2>1, <3>2 DEF DifferentIn
    <3>4. QED
      BY <2>2, <2>4, <3>1, <3>2, <3>3
  <2>5. CASE Considered(r, i, n, fn) = Spliced(r, i, n) /\ i <= r.len
    <3>1. PICK s : s = Spliced(r, i, n) /\ s \in Loops(S, n) /\ (DifferentIn(r) => DifferentIn(s))
      BY <2>1, <2>5, SplicedKeeps
    <3>2. QED
      BY <2>1, <2>2, <2>5, <3>1
  <2>6. QED
    <3>1. r.len \in Int
      BY <2>1 DEF Loops
    <3>2. QED
      BY <2>3, <2>4, <2>5, <3>1 DEF Considered
<1> HIDE DEF From
<1>5. From(n)
  <2>1. 0 \in T
    BY <1>3
  <2>2. \A i \in 1..n : i - 1 \in T => i \in T
    BY <1>4
  <2>3. 0..n \subseteq T
    BY <2>1, <2>2, CountUp
  <2>4. QED
    BY <2>3
<1>6. PICK r : r = Removed(cbs, fn) /\ r \in Loops(S, n) /\ (IsInjective(cbs) => DifferentIn(r))
  BY <1>2, <1>5 DEF From
<1>7. PICK arr \in [1..n -> S], len \in 0..n : r.arr = arr /\ r.len = len
  BY <1>6 DEF Loops
<1>8. PICK list : list = SubSeq(arr, 1, len)
  OBVIOUS
<1>9. list \in Seq(S) /\ Len(list) = len /\ \A a \in 1..len : list[a] = arr[a]
  BY <1>8
<1>10. IsInjective(cbs) => IsInjective(list)
  BY <1>6, <1>7, <1>9 DEF DifferentIn, IsInjective
<1>11. QED
  BY <1>1, <1>6, <1>7, <1>8, <1>9, <1>10

\* Of a list with at most one callback of a function, the k-th, the loop takes
\* out that one and does not panic.
LEMMA RemovedOne ==
  ASSUME NEW S, NEW cbs \in Seq(S), NEW fn, NEW k \in 1..(Len(cbs) + 1),
         \A j \in 1..Len(cbs) : obInfo[cbs[j]].fn = fn <=> j = k
  PROVE  LET r == Removed(cbs, fn)
         IN  /\ ~r.bad /\ SubSeq(r.arr, 1, r.len) \in Seq(S)
             /\ Len(SubSeq(r.arr, 1, r.len)) = IF k <= Len(cbs) THEN Len(cbs) - 1 ELSE Len(cbs)
             /\ \A a \in 1..Len(SubSeq(r.arr, 1, r.len)) :
                  SubSeq(r.arr, 1, r.len)[a] = IF a < k THEN cbs[a] ELSE cbs[a + 1]
<1>1. PICK n \in Nat : n = Len(cbs)
  OBVIOUS
<1>2. PICK after : /\ Removed(cbs, fn) = after[n]
                   /\ after[0] = [arr |-> cbs, len |-> n, bad |-> FALSE]
                   /\ \A i \in 1..n : after[i] = Considered(after[i - 1], i, n, fn)
  BY <1>1, RemovedIs
<1>3. cbs \in [1..n -> S]
  BY <1>1
<1> DEFINE From(i) == /\ after[i] \in Loops(S, n) /\ ~after[i].bad
                      /\ after[i].len = IF k <= i THEN n - 1 ELSE n
                      /\ \A j \in 1..n : after[i].arr[j] = IF k <= i /\ k <= j /\ j < n THEN cbs[j + 1] ELSE cbs[j]
           T == {i \in 0..n : From(i)}
<1>4. From(0)
  <2>1. PICK r : r = [arr |-> cbs, len |-> n, bad |-> FALSE]
    OBVIOUS
  <2>2. r = after[0] /\ r.arr = cbs /\ r.len = n /\ r.bad = FALSE /\ n \in 0..n
    BY <1>2, <2>1
  <2>3. r \in Loops(S, n)
    BY <1>3, <2>1, <2>2 DEF Loops
  <2>4. ~(k <= 0)
    BY <1>1
  <2>5. QED
    BY <2>2, <2>3, <2>4
<1>5. ASSUME NEW i \in 1..n, From(i - 1) PROVE From(i)
  <2>1. PICK r : r = after[i - 1]
    OBVIOUS
  <2>2. /\ r \in Loops(S, n) /\ ~r.bad /\ r.len = IF k <= i - 1 THEN n - 1 ELSE n
        /\ \A j \in 1..n : r.arr[j] = IF k <= i - 1 /\ k <= j /\ j < n THEN cbs[j + 1] ELSE cbs[j]
    BY <1>5, <2>1
  <2>3. after[i] = Considered(r, i, n, fn)
    BY <1>2, <2>1
  <2>4. CASE i = k
    <3>1. r.len = n /\ \A j \in 1..n : r.arr[j] = cbs[j]
      BY <2>2, <2>4
    <3>2. obInfo[r.arr[i]].fn = fn
      BY <1>1, <2>4, <3>1
    <3>3. after[i] = Spliced(r, i, n)
      BY <2>2, <2>3, <3>1, <3>2 DEF Considered
    <3>4. PICK s : s = Spliced(r, i, n) /\ s \in Loops(S, n) /\ s.len = n - 1 /\ s.bad = r.bad
                   /\ \A j \in 1..n : s.arr[j] = IF i <= j /\ j < r.len THEN r.arr[j + 1] ELSE r.arr[j]
      <4>1. i <= r.len
        BY <3>1
      <4>2. QED
        BY <2>2, <3>1, <4>1, SplicedKeeps
    <3>5. \A j \in 1..n : s.arr[j] = IF k <= j /\ j < n THEN cbs[j + 1] ELSE cbs[j]
      BY <2>4, <3>1, <3>4
    <3>6. k <= i
      BY <2>4
    <3>7. QED
      BY <2>2, <3>3, <3>4, <3>5, <3>6
  <2>5. CASE i # k
    <3>1. \E j \in 1..n : r.arr[i] = cbs[j] /\ j # k
      <4>1. CASE k <= i - 1 /\ i < n
        BY <2>2, <4>1
      <4>2. CASE ~(k <= i - 1 /\ i < n)
        <5>1. r.arr[i] = cbs[i]
          BY <1>1, <2>2, <4>2
        <5>2. QED
          BY <2>5, <5>1
      <4>3. QED
        BY <4>1, <4>2
    <3>2. obInfo[r.arr[i]].fn # fn
      BY <1>1, <3>1
    <3>3. after[i] = r
      BY <2>3, <3>2 DEF Considered
    <3>4. k <= i <=> k <= i - 1
      BY <1>1, <2>5
    <3>5. QED
      BY <2>2, <3>3, <3>4
  <2>6. QED
    BY <2>4, <2>5
<1> HIDE DEF From
<1>6. From(n)
  <2>1. 0 \in T
    BY <1>4
  <2>2. \A i \in 1..n : i - 1 \in T => i \in T
    BY <1>5
  <2>3. 0..n \subseteq T
    BY <2>1, <2>2, CountUp
  <2>4. QED
    BY <2>3
<1>7. PICK arr \in [1..n -> S], len \in 0..n : Removed(cbs, fn).arr = arr /\ Removed(cbs, fn).len = len
  BY <1>2, <1>6 DEF From, Loops
<1>8. /\ ~Removed(cbs, fn).bad /\ len = IF k <= n THEN n - 1 ELSE n
      /\ \A j \in 1..n : arr[j] = IF k <= n /\ k <= j /\ j < n THEN cbs[j + 1] ELSE cbs[j]
  BY <1>2, <1>6, <1>7 DEF From
<1>9. PICK list : list = SubSeq(arr, 1, len)
  OBVIOUS
<1>10. list \in Seq(S) /\ Len(list) = len /\ \A a \in 1..len : list[a] = arr[a]
  BY <1>9
<1>11. \A a \in 1..len : arr[a] = IF a < k THEN cbs[a] ELSE cbs[a + 1]
  BY <1>1, <1>8
<1>12. QED
  BY <1>1, <1>7, <1>8, <1>9, <1>10, <1>11

Infos == [event : Names, fn : Callables, unique : BOOLEAN]
Goes(n) == [todo : Seq(Names), cbs : Seq(1..n), remove : 0..n]

\* A Once callback that waits to be called was claimed for that place alone.
ClaimedFor(g, a) ==
  LET i == obGo[g].cbs[a]
  IN  obInfo[i].unique =>
        /\ i \in obCalled /\ obCalls[i] = 0
        /\ \A h \in Triggerers : \A b \in 1..Len(obGo[h].cbs) :
             obGo[h].cbs[b] = i => h = g /\ b = a

ObservableIInv ==
  /\ obInfo \in Seq(Infos) /\ Len(obInfo) <= MaxCallbacks
  /\ obLists \in [Names -> Seq(1..Len(obInfo))] /\ \A e \in Names : IsInjective(obLists[e])
  /\ obCalled \subseteq 1..Len(obInfo)
  /\ obCalls \in [Ids -> {0, 1}] /\ \A i \in Ids : obCalls[i] = 1 => i \in obCalled
  /\ obGo \in [Triggerers -> Goes(Len(obInfo))]
  /\ \A g \in Triggerers : \A a \in 1..Len(obGo[g].cbs) : ClaimedFor(g, a)

LEMMA ObservableInitInv == ObservableInit => ObservableIInv
<1> SUFFICES ASSUME ObservableInit PROVE ObservableIInv
  OBVIOUS
<1>1. obInfo = <<>> /\ Len(obInfo) = 0 /\ obInfo \in Seq(Infos) /\ obCalled = {}
  BY DEF ObservableInit
<1>2. obLists \in [Names -> Seq(1..0)] /\ \A e \in Names : IsInjective(obLists[e])
  BY DEF ObservableInit, IsInjective
<1>3. obCalls \in [Ids -> {0, 1}] /\ \A i \in Ids : obCalls[i] = 0
  BY DEF ObservableInit
<1>4. PICK idle : idle = [todo |-> <<>>, cbs |-> <<>>, remove |-> 0] /\ idle.cbs = <<>> /\ idle \in Goes(0)
  <2>1. [todo |-> <<>>, cbs |-> <<>>, remove |-> 0] \in Goes(0)
    BY DEF Goes
  <2>2. QED
    BY <2>1
<1>5. obGo = [g \in Triggerers |-> idle]
  BY <1>4 DEF ObservableInit
<1>6. obGo \in [Triggerers -> Goes(0)] /\ \A g \in Triggerers : Len(obGo[g].cbs) = 0
  BY <1>4, <1>5
<1>7. 0 <= MaxCallbacks
  BY ObservableAssumption
<1>8. QED
  BY <1>1, <1>2, <1>3, <1>6, <1>7 DEF ObservableIInv

\* A step that only changes lists and what the goroutines do next.
LEMMA ListsChange ==
  ASSUME ObservableIInv, UNCHANGED <<obInfo, obCalled, obCalls>>,
         obLists' \in [Names -> Seq(1..Len(obInfo))], \A e \in Names : IsInjective(obLists'[e]),
         obGo' \in [Triggerers -> Goes(Len(obInfo))],
         \A g \in Triggerers : obGo'[g].cbs = obGo[g].cbs
  PROVE  ObservableIInv'
<1>1. \A g \in Triggerers : \A a \in 1..Len(obGo[g].cbs) : ClaimedFor(g, a)'
  <2>1. SUFFICES ASSUME NEW g \in Triggerers, NEW a \in 1..Len(obGo[g].cbs) PROVE ClaimedFor(g, a)'
    OBVIOUS
  <2>2. PICK i : i = obGo[g].cbs[a] /\ i = obGo'[g].cbs[a]
    OBVIOUS
  <2>3. obInfo[i].unique =>
          /\ i \in obCalled /\ obCalls[i] = 0
          /\ \A h \in Triggerers : \A b \in 1..Len(obGo[h].cbs) : obGo[h].cbs[b] = i => h = g /\ b = a
    BY <2>2 DEF ObservableIInv, ClaimedFor
  <2>4. \A h \in Triggerers : \A b \in 1..Len(obGo'[h].cbs) :
          obGo'[h].cbs[b] = i => b \in 1..Len(obGo[h].cbs) /\ obGo[h].cbs[b] = i
    OBVIOUS
  <2>5. QED
    BY <2>2, <2>3, <2>4 DEF ClaimedFor
<1>2. QED
  BY <1>1 DEF ObservableIInv

LEMMA RegisterInv ==
  ASSUME ObservableIInv, NEW e \in Names, NEW fn \in Callables, NEW unique \in BOOLEAN,
         Register(e, fn, unique)
  PROVE  ObservableIInv'
<1>1. PICK n \in Nat : n = Len(obInfo) /\ n < MaxCallbacks
  BY DEF Register, ObservableIInv
<1>2. PICK info : info = [event |-> e, fn |-> fn, unique |-> unique] /\ info \in Infos
  <2>1. [event |-> e, fn |-> fn, unique |-> unique] \in Infos
    BY DEF Infos
  <2>2. QED
    BY <2>1
<1>3. /\ obInfo' = Append(obInfo, info)
      /\ obLists' = [obLists EXCEPT ![e] = Append(@, Len(obInfo'))]
      /\ UNCHANGED <<obCalled, obCalls, obGo>>
  BY <1>2 DEF Register
<1>4. /\ obInfo' \in Seq(Infos) /\ Len(obInfo') = n + 1
      /\ \A i \in 1..n : obInfo'[i] = obInfo[i]
  BY <1>1, <1>2, <1>3, Appended DEF ObservableIInv
<1>5. 1..n \subseteq 1..(n + 1) /\ n + 1 \in 1..(n + 1) /\ n + 1 \notin 1..n /\ n + 1 <= MaxCallbacks
  BY <1>1, ObservableAssumption
<1>6. \A l \in Seq(1..n) : l \in Seq(1..(n + 1)) /\ n + 1 \notin ToSet(l)
  <2>1. SUFFICES ASSUME NEW l \in Seq(1..n) PROVE l \in Seq(1..(n + 1)) /\ n + 1 \notin ToSet(l)
    OBVIOUS
  <2>2. \A a \in 1..Len(l) : l[a] \in 1..n
    OBVIOUS
  <2>3. l \in Seq(1..(n + 1))
    BY <1>5, <2>2
  <2>4. QED
    BY <1>5, <2>2, <2>3, ElementOf
<1>7. \A l \in Seq(1..n) : /\ Append(l, n + 1) \in Seq(1..(n + 1))
                           /\ IsInjective(l) => IsInjective(Append(l, n + 1))
  BY <1>5, <1>6, Appended, AppendIsInjective
<1>8. obLists' \in [Names -> Seq(1..(n + 1))] /\ \A x \in Names : IsInjective(obLists'[x])
  <2>1. obLists \in [Names -> Seq(1..n)] /\ \A x \in Names : IsInjective(obLists[x])
    BY <1>1 DEF ObservableIInv
  <2>2. obLists' = [obLists EXCEPT ![e] = Append(@, n + 1)]
    BY <1>3, <1>4
  <2>3. \A x \in Names : obLists'[x] = IF x = e THEN Append(obLists[x], n + 1) ELSE obLists[x]
    BY <2>1, <2>2
  <2>4. \A x \in Names : obLists'[x] \in Seq(1..(n + 1)) /\ IsInjective(obLists'[x])
    BY <1>6, <1>7, <2>1, <2>3
  <2>5. QED
    BY <2>1, <2>2, <2>4
<1>9. obGo' \in [Triggerers -> Goes(n + 1)]
  <2>1. Goes(n) \subseteq Goes(n + 1)
    <3>1. \A x \in Goes(n) : x.cbs \in Seq(1..(n + 1)) /\ x.remove \in 0..(n + 1)
      BY <1>1, <1>6 DEF Goes
    <3>2. QED
      BY <3>1 DEF Goes
  <2>2. QED
    BY <1>1, <1>3, <2>1 DEF ObservableIInv
<1>10. ASSUME NEW g \in Triggerers, NEW a \in 1..Len(obGo[g].cbs) PROVE ClaimedFor(g, a)'
  <2>1. ClaimedFor(g, a) /\ obGo[g].cbs[a] \in 1..n
    BY <1>1 DEF ObservableIInv, Goes
  <2>2. QED
    BY <1>3, <1>4, <2>1 DEF ClaimedFor
<1>11. QED
  <2>1. obCalled' \subseteq 1..(n + 1) /\ obCalls' \in [Ids -> {0, 1}] /\ \A i \in Ids : obCalls'[i] = 1 => i \in obCalled'
    BY <1>1, <1>3, <1>5 DEF ObservableIInv
  <2>2. \A g \in Triggerers : \A a \in 1..Len(obGo'[g].cbs) : ClaimedFor(g, a)'
    BY <1>3, <1>10
  <2>3. QED
    BY <1>4, <1>5, <1>8, <1>9, <2>1, <2>2 DEF ObservableIInv

\* removeEvent leaves lists of callbacks, each once.
LEMMA RemoveEventKeeps ==
  ASSUME ObservableIInv, NEW e \in Names, NEW fn, RemoveEvent(e, fn)
  PROVE  obLists' \in [Names -> Seq(1..Len(obInfo))] /\ \A x \in Names : IsInjective(obLists'[x])
<1>1. obLists \in [Names -> Seq(1..Len(obInfo))] /\ \A x \in Names : IsInjective(obLists[x])
  BY DEF ObservableIInv
<1>2. PICK list : list = SubSeq(Removed(obLists[e], fn).arr, 1, Removed(obLists[e], fn).len)
  OBVIOUS
<1>3. list \in Seq(1..Len(obInfo)) /\ IsInjective(list)
  BY <1>1, <1>2, RemovedKeeps
<1>4. obLists' = obLists \/ obLists' = [obLists EXCEPT ![e] = list]
  BY <1>2 DEF RemoveEvent
<1>5. QED
  BY <1>1, <1>3, <1>4

LEMMA OffInv ==
  ASSUME ObservableIInv, NEW e \in Names, Off(e)
  PROVE  ObservableIInv'
<1>1. obLists' = [n \in Names |-> IF e \in {n, All} THEN <<>> ELSE obLists[n]]
      /\ UNCHANGED <<obInfo, obCalled, obCalls, obGo>>
  BY DEF Off
<1>2. <<>> \in Seq(1..Len(obInfo)) /\ IsInjective(<<>>)
  BY DEF IsInjective
<1>3. \A n \in Names : obLists'[n] = <<>> \/ obLists'[n] = obLists[n]
  BY <1>1
<1>4. DOMAIN obLists' = Names /\ obLists' = [n \in Names |-> obLists'[n]]
  BY <1>1
<1>5. \A n \in Names : obLists'[n] \in Seq(1..Len(obInfo)) /\ IsInjective(obLists'[n])
  BY <1>2, <1>3 DEF ObservableIInv
<1>6. obLists' \in [Names -> Seq(1..Len(obInfo))]
  BY <1>4, <1>5
<1>7. QED
  BY <1>1, <1>5, <1>6, ListsChange DEF ObservableIInv

LEMMA TriggerInv ==
  ASSUME ObservableIInv, NEW g \in Triggerers, NEW e \in Names, Trigger(g, e)
  PROVE  ObservableIInv'
<1>1. PICK todo : todo = IF e = All THEN <<All>> ELSE <<e, All>>
  OBVIOUS
<1>2. obGo' = [obGo EXCEPT ![g].todo = todo] /\ UNCHANGED <<obLists, obInfo, obCalled, obCalls>>
  BY <1>1 DEF Trigger
<1>3. todo \in Seq(Names)
  <2>1. All \in Names /\ e \in Names
    BY DEF Names
  <2>2. <<All>> \in Seq(Names) /\ <<e, All>> \in Seq(Names)
    BY <2>1
  <2>3. QED
    BY <1>1, <2>2
<1>4. obGo' \in [Triggerers -> Goes(Len(obInfo))] /\ \A h \in Triggerers : obGo'[h].cbs = obGo[h].cbs
  BY <1>2, <1>3 DEF ObservableIInv, Goes
<1>5. QED
  BY <1>2, <1>4, ListsChange DEF ObservableIInv

LEMMA RemoveOnceInv ==
  ASSUME ObservableIInv, NEW g \in Triggerers, RemoveOnce(g)
  PROVE  ObservableIInv'
<1>1. obGo[g].remove \in 1..Len(obInfo)
  BY DEF RemoveOnce, ObservableIInv, Goes
<1>2. PICK e \in Names : e = obInfo[obGo[g].remove].event
  <2>1. obInfo[obGo[g].remove] \in Infos
    BY <1>1 DEF ObservableIInv
  <2>2. QED
    BY <2>1 DEF Infos
<1>3. /\ RemoveEvent(e, obInfo[obGo[g].remove].fn) /\ obGo' = [obGo EXCEPT ![g].remove = 0]
      /\ UNCHANGED <<obInfo, obCalled, obCalls>>
  BY <1>2 DEF RemoveOnce
<1>4. obLists' \in [Names -> Seq(1..Len(obInfo))] /\ \A x \in Names : IsInjective(obLists'[x])
  BY <1>3, RemoveEventKeeps
<1>5. 0 \in 0..Len(obInfo)
  BY DEF ObservableIInv
<1>6. obGo' \in [Triggerers -> Goes(Len(obInfo))] /\ \A h \in Triggerers : obGo'[h].cbs = obGo[h].cbs
  BY <1>3, <1>5 DEF ObservableIInv, Goes
<1>7. QED
  BY <1>3, <1>4, <1>6, ListsChange

LEMMA SnapshotInv ==
  ASSUME ObservableIInv, NEW g \in Triggerers, Snapshot(g)
  PROVE  ObservableIInv'
<1> DEFINE taken == {i \in DOMAIN obInfo : Claimed(i)}
<1>1. PICK n \in Nat : n = Len(obInfo) /\ DOMAIN obInfo = 1..n
  BY DEF ObservableIInv
<1>2. obGo \in [Triggerers -> Goes(n)] /\ obGo[g].todo \in Seq(Names) /\ obGo[g].todo # <<>>
      /\ obGo[g].cbs = <<>>
  BY <1>1 DEF Snapshot, ObservableIInv, Goes
<1>3. Head(obGo[g].todo) \in Names /\ Tail(obGo[g].todo) \in Seq(Names)
  BY <1>2
<1>4. PICK list : list = obLists[Head(obGo[g].todo)] /\ list \in Seq(1..n) /\ IsInjective(list)
  BY <1>1, <1>3 DEF ObservableIInv
<1>5. PICK cbs : cbs = Omit(list, taken)
  OBVIOUS
<1>6. /\ obGo' = [obGo EXCEPT ![g].cbs = cbs, ![g].todo = Tail(@)]
      /\ obCalled' = obCalled \cup {i \in ToSet(cbs) : obInfo[i].unique}
      /\ UNCHANGED <<obLists, obInfo, obCalls>>
  BY <1>4, <1>5 DEF Snapshot
<1>7. cbs \in Seq(1..n) /\ IsInjective(cbs) /\ \A a \in 1..Len(cbs) : cbs[a] \in 1..n /\ cbs[a] \notin taken
  <2>1. cbs \in Seq(1..n) /\ IsInjective(cbs) /\ \A a \in 1..Len(cbs) : cbs[a] \notin taken
    BY <1>4, <1>5, OmitKeeps
  <2>2. QED
    BY <2>1
<1>8. \A a \in 1..Len(cbs) : obInfo[cbs[a]].unique => cbs[a] \notin obCalled
  BY <1>1, <1>7 DEF Claimed
<1> HIDE DEF taken
<1>9. /\ obGo' \in [Triggerers -> Goes(n)]
      /\ \A h \in Triggerers : obGo'[h].cbs = IF h = g THEN cbs ELSE obGo[h].cbs
  <2>1. PICK do : do = [obGo[g] EXCEPT !.cbs = cbs, !.todo = Tail(obGo[g].todo)]
    OBVIOUS
  <2>2. do \in Goes(n) /\ do.cbs = cbs
    BY <1>2, <1>3, <1>7, <2>1 DEF Goes
  <2>3. obGo' = [obGo EXCEPT ![g] = do]
    BY <1>2, <1>6, <2>1
  <2>4. QED
    BY <1>2, <2>2, <2>3
<1>10. obCalled \subseteq obCalled' /\ \A a \in 1..Len(cbs) : obInfo[cbs[a]].unique => cbs[a] \in obCalled'
  <2>1. \A a \in 1..Len(cbs) : cbs[a] \in ToSet(cbs)
    BY <1>7, ElementOf
  <2>2. QED
    BY <1>6, <2>1
<1>11. obCalled' \subseteq 1..n
  <2>1. ToSet(cbs) \subseteq 1..n
    BY <1>7, ElementOf
  <2>2. QED
    BY <1>1, <1>6, <2>1 DEF ObservableIInv
<1>12. \A h \in Triggerers : h # g => \A b \in 1..Len(obGo[h].cbs) :
         obGo[h].cbs[b] \in 1..n /\ (obInfo[obGo[h].cbs[b]].unique => obGo[h].cbs[b] \in obCalled)
  BY <1>1 DEF ObservableIInv, ClaimedFor, Goes
<1>13. ASSUME NEW h \in Triggerers, NEW a \in 1..Len(obGo'[h].cbs) PROVE ClaimedFor(h, a)'
  <2>1. PICK i : i = obGo'[h].cbs[a]
    OBVIOUS
  <2>2. CASE h = g
    <3>1. a \in 1..Len(cbs) /\ i = cbs[a]
      BY <1>9, <2>1, <2>2
    <3>2. SUFFICES ASSUME obInfo[i].unique
                   PROVE  /\ i \in obCalled' /\ obCalls[i] = 0
                          /\ \A k \in Triggerers : \A b \in 1..Len(obGo'[k].cbs) :
                               obGo'[k].cbs[b] = i => k = h /\ b = a
      BY <1>6, <2>1 DEF ClaimedFor
    <3>3. i \in obCalled' /\ i \notin obCalled
      BY <1>8, <1>10, <3>1, <3>2
    <3>4. obCalls[i] = 0
      <4>1. i \in Ids
        BY <1>1, <1>7, <3>1, ObservableAssumption DEF ObservableIInv, Ids
      <4>2. QED
        BY <3>3, <4>1 DEF ObservableIInv
    <3>5. ASSUME NEW k \in Triggerers, NEW b \in 1..Len(obGo'[k].cbs), obGo'[k].cbs[b] = i PROVE k = h /\ b = a
      <4>1. k = g
        BY <1>9, <1>12, <3>2, <3>3, <3>5
      <4>2. b \in 1..Len(cbs) /\ cbs[b] = cbs[a]
        BY <1>9, <3>1, <3>5, <4>1
      <4>3. QED
        BY <1>7, <2>2, <3>1, <4>1, <4>2 DEF IsInjective
    <3>6. QED
      BY <3>3, <3>4, <3>5
  <2>3. CASE h # g
    <3>1. a \in 1..Len(obGo[h].cbs) /\ i = obGo[h].cbs[a] /\ ClaimedFor(h, a)
      BY <1>9, <2>1, <2>3 DEF ObservableIInv
    <3>2. SUFFICES ASSUME obInfo[i].unique
                   PROVE  /\ i \in obCalled' /\ obCalls[i] = 0
                          /\ \A k \in Triggerers : \A b \in 1..Len(obGo'[k].cbs) :
                               obGo'[k].cbs[b] = i => k = h /\ b = a
      BY <1>6, <2>1 DEF ClaimedFor
    <3>3. /\ i \in obCalled /\ obCalls[i] = 0
          /\ \A k \in Triggerers : \A b \in 1..Len(obGo[k].cbs) : obGo[k].cbs[b] = i => k = h /\ b = a
      BY <3>1, <3>2 DEF ClaimedFor
    <3>4. ASSUME NEW k \in Triggerers, NEW b \in 1..Len(obGo'[k].cbs), obGo'[k].cbs[b] = i PROVE k = h /\ b = a
      <4>1. k # g
        BY <1>8, <1>9, <3>2, <3>3, <3>4
      <4>2. QED
        BY <1>9, <3>3, <3>4, <4>1
    <3>5. QED
      BY <1>10, <3>3, <3>4
  <2>4. QED
    BY <2>2, <2>3
<1>14. QED
  BY <1>1, <1>6, <1>9, <1>10, <1>11, <1>13 DEF ObservableIInv

LEMMA CallNextInv ==
  ASSUME ObservableIInv, NEW g \in Triggerers, CallNext(g)
  PROVE  ObservableIInv'
<1>1. PICK n \in Nat : n = Len(obInfo) /\ n <= MaxCallbacks /\ obGo \in [Triggerers -> Goes(n)]
  BY DEF ObservableIInv
<1>2. PICK cbs \in Seq(1..n) : cbs = obGo[g].cbs /\ cbs # <<>>
  BY <1>1 DEF CallNext, Goes
<1>3. PICK i \in 1..n : i = Head(cbs) /\ i = cbs[1]
  BY <1>2
<1>4. i \in Ids
  BY <1>1, ObservableAssumption DEF Ids
<1>5. PICK rest : rest = Tail(cbs)
  OBVIOUS
<1>16. /\ rest \in Seq(1..n) /\ Len(rest) = Len(cbs) - 1 /\ Len(cbs) \in Nat \ {0}
       /\ \A a \in 1..Len(rest) : a \in Nat /\ a + 1 \in 1..Len(cbs) /\ rest[a] = cbs[a + 1]
  <2>1. /\ Tail(cbs) \in Seq(1..n) /\ Len(Tail(cbs)) = Len(cbs) - 1 /\ Len(cbs) > 0
        /\ \A a \in 1..Len(Tail(cbs)) : Tail(cbs)[a] = cbs[a + 1]
    BY <1>2, TailQueue
  <2>2. Len(cbs) \in Nat \ {0}
    BY <1>2, <2>1
  <2>3. Len(rest) = Len(cbs) - 1 /\ \A a \in 1..Len(rest) : rest[a] = cbs[a + 1]
    BY <1>5, <2>1
  <2>4. \A a \in 1..Len(rest) : a \in Nat /\ a + 1 \in 1..Len(cbs)
    BY <2>2, <2>3
  <2>5. QED
    BY <1>5, <2>1, <2>2, <2>3, <2>4
<1>6. PICK remove \in 0..n : remove = AfterCall(i)
  BY <1>1, <1>3 DEF AfterCall
<1>7. /\ obCalls' = IF obInfo[i].unique /\ obCalls[i] < 2 THEN [obCalls EXCEPT ![i] = @ + 1] ELSE obCalls
      /\ obGo' = [obGo EXCEPT ![g].cbs = Tail(@), ![g].remove = remove]
      /\ UNCHANGED <<obLists, obInfo, obCalled>>
  BY <1>2, <1>3, <1>6 DEF CallNext
<1>8. /\ obGo' \in [Triggerers -> Goes(n)]
      /\ \A h \in Triggerers : obGo'[h].cbs = IF h = g THEN rest ELSE obGo[h].cbs
  <2>1. PICK do : do = [obGo[g] EXCEPT !.cbs = rest, !.remove = remove]
    OBVIOUS
  <2>2. do \in Goes(n) /\ do.cbs = rest
    BY <1>1, <1>6, <1>16, <2>1 DEF Goes
  <2>3. obGo' = [obGo EXCEPT ![g] = do]
    BY <1>1, <1>2, <1>5, <1>7, <2>1
  <2>4. QED
    BY <1>1, <2>2, <2>3
<1>9. 1 \in 1..Len(cbs) /\ ClaimedFor(g, 1)
  BY <1>2 DEF ObservableIInv
<1>10. obInfo[i].unique =>
         /\ i \in obCalled /\ obCalls[i] = 0
         /\ \A h \in Triggerers : \A b \in 1..Len(obGo[h].cbs) : obGo[h].cbs[b] = i => h = g /\ b = 1
  BY <1>2, <1>3, <1>9 DEF ClaimedFor
<1>11. /\ obCalls' \in [Ids -> {0, 1}] /\ \A k \in Ids : obCalls'[k] = 1 => k \in obCalled
       /\ \A k \in Ids : obCalls'[k] # obCalls[k] => k = i /\ obInfo[i].unique
  <2>1. CASE obInfo[i].unique
    <3>1. obCalls \in [Ids -> {0, 1}] /\ obCalls[i] = 0 /\ i \in obCalled
      BY <1>10, <2>1 DEF ObservableIInv
    <3>2. obCalls' = [obCalls EXCEPT ![i] = obCalls[i] + 1]
      BY <1>7, <2>1, <3>1
    <3>3. obCalls' \in [Ids -> {0, 1}] /\ \A k \in Ids : obCalls'[k] = IF k = i THEN 1 ELSE obCalls[k]
      BY <1>4, <3>1, <3>2
    <3>4. \A k \in Ids : obCalls[k] = 1 => k \in obCalled
      BY DEF ObservableIInv
    <3>5. QED
      BY <1>4, <2>1, <3>1, <3>3, <3>4
  <2>2. CASE ~obInfo[i].unique
    BY <1>7, <2>2 DEF ObservableIInv
  <2>3. QED
    BY <2>1, <2>2
\* Every place in the new lists was one in the old, and no place twice.
<1> DEFINE Was(h, a) == IF h = g THEN a + 1 ELSE a
<1>12. ASSUME NEW h \in Triggerers, NEW a \in 1..Len(obGo'[h].cbs)
       PROVE  /\ Was(h, a) \in 1..Len(obGo[h].cbs) /\ obGo'[h].cbs[a] = obGo[h].cbs[Was(h, a)]
              /\ a \in Nat /\ (h = g => Was(h, a) # 1)
  <2>1. CASE h = g
    <3>1. a \in 1..Len(rest) /\ obGo'[h].cbs = rest /\ obGo[h].cbs = cbs /\ Was(h, a) = a + 1
      BY <1>2, <1>8, <1>12, <2>1
    <3>2. a \in Nat /\ a + 1 \in 1..Len(cbs) /\ rest[a] = cbs[a + 1]
      BY <1>16, <3>1
    <3>3. QED
      BY <2>1, <3>1, <3>2
  <2>2. CASE h # g
    <3>1. obGo'[h].cbs = obGo[h].cbs /\ Was(h, a) = a
      BY <1>8, <2>2
    <3>2. Len(obGo[h].cbs) \in Nat
      BY <1>1 DEF Goes
    <3>3. a \in Nat
      BY <1>12, <3>1, <3>2
    <3>4. QED
      BY <1>12, <2>2, <3>1, <3>3
  <2>3. QED
    BY <2>1, <2>2
<1>13. ASSUME NEW h \in Triggerers, NEW a \in 1..Len(obGo'[h].cbs) PROVE ClaimedFor(h, a)'
  <2>1. PICK k : k = obGo'[h].cbs[a]
    OBVIOUS
  <2>2. SUFFICES ASSUME obInfo[k].unique
                 PROVE  /\ k \in obCalled /\ obCalls'[k] = 0
                        /\ \A l \in Triggerers : \A b \in 1..Len(obGo'[l].cbs) :
                             obGo'[l].cbs[b] = k => l = h /\ b = a
    BY <1>7, <2>1 DEF ClaimedFor
  <2>3. /\ k \in obCalled /\ obCalls[k] = 0
        /\ \A l \in Triggerers : \A b \in 1..Len(obGo[l].cbs) :
             obGo[l].cbs[b] = k => l = h /\ b = Was(h, a)
    <3>1. ClaimedFor(h, Was(h, a)) /\ obGo[h].cbs[Was(h, a)] = k
      BY <1>12, <2>1 DEF ObservableIInv
    <3>2. QED
      BY <2>2, <3>1 DEF ClaimedFor
  <2>4. k # i
    <3>1. SUFFICES ASSUME k = i PROVE FALSE
      OBVIOUS
    <3>2. h = g /\ Was(h, a) = 1
      BY <1>2, <1>3, <1>9, <2>3, <3>1
    <3>3. QED
      BY <1>12, <3>2
  <2>5. obCalls'[k] = 0
    <3>1. k \in Ids
      BY <1>1, <2>3, ObservableAssumption DEF ObservableIInv, Ids
    <3>2. QED
      BY <1>11, <2>3, <2>4, <3>1
  <2>6. ASSUME NEW l \in Triggerers, NEW b \in 1..Len(obGo'[l].cbs), obGo'[l].cbs[b] = k PROVE l = h /\ b = a
    <3>1. Was(l, b) \in 1..Len(obGo[l].cbs) /\ obGo[l].cbs[Was(l, b)] = k /\ b \in Nat
      BY <1>12, <2>6
    <3>2. l = h /\ Was(l, b) = Was(h, a)
      BY <2>3, <3>1
    <3>3. a \in Nat
      BY <1>12
    <3>4. QED
      BY <3>1, <3>2, <3>3
  <2>7. QED
    BY <2>3, <2>5, <2>6
<1>14. QED
  BY <1>1, <1>7, <1>8, <1>11, <1>13 DEF ObservableIInv

LEMMA ObservableNextInv == ObservableIInv /\ [ObservableNext]_obVars => ObservableIInv'
<1> SUFFICES ASSUME ObservableIInv, [ObservableNext]_obVars PROVE ObservableIInv'
  OBVIOUS
<1>1. ASSUME NEW e \in Events, NEW fn \in Callables, OffFunction(e, fn) PROVE ObservableIInv'
  <2>1. RemoveEvent(e, fn) /\ e \in Names /\ UNCHANGED <<obInfo, obCalled, obCalls, obGo>>
    BY <1>1 DEF OffFunction, Names
  <2>2. obLists' \in [Names -> Seq(1..Len(obInfo))] /\ \A x \in Names : IsInjective(obLists'[x])
    BY <2>1, RemoveEventKeeps
  <2>3. QED
    BY <2>1, <2>2, ListsChange DEF ObservableIInv
<1>2. ASSUME UNCHANGED obVars PROVE ObservableIInv'
  BY <1>2, ListsChange DEF obVars, ObservableIInv
<1>3. QED
  BY <1>1, <1>2, RegisterInv, OffInv, TriggerInv, SnapshotInv, CallNextInv, RemoveOnceInv
     DEF ObservableNext, Dispatch

LEMMA ObservableInvariance == ObservableSpec => []ObservableIInv
BY ObservableInitInv, ObservableNextInv, PTL DEF ObservableSpec

\* For any goroutines, events and callbacks: a callback registered with Once
\* runs at most once, whoever triggers its event meanwhile (helpers.go:69-74).
THEOREM OnceRunsOnce == ObservableSpec => []OnceAtMostOnce
<1>1. ObservableIInv => OnceAtMostOnce
  BY DEF ObservableIInv, OnceAtMostOnce
<1>2. QED
  BY ObservableInvariance, <1>1, PTL

\* RemoveOnce is the only step that gives up obGo[g].remove.
LEMMA OnlyRemoveOnce ==
  ASSUME ObservableIInv, ObservableNext, NEW g \in Triggerers,
         obGo[g].remove # 0, obGo'[g].remove = 0
  PROVE  RemoveOnce(g)
<1>1. obGo' # obGo /\ obGo \in [Triggerers -> Goes(Len(obInfo))]
  BY DEF ObservableIInv
<1>2. ASSUME NEW h \in Triggerers, NEW e \in Names, Trigger(h, e) PROVE FALSE
  <2>1. h # g
    BY <1>2 DEF Trigger
  <2>2. \A x : [obGo EXCEPT ![h] = x][g] = obGo[g]
    BY <1>1, <2>1
  <2>3. QED
    BY <1>2, <2>2 DEF Trigger
<1>3. ASSUME NEW h \in Triggerers, Snapshot(h) PROVE FALSE
  <2>1. h # g
    BY <1>3 DEF Snapshot
  <2>2. \E x : obGo' = [obGo EXCEPT ![h] = x]
    BY <1>3 DEF Snapshot
  <2>3. \A x : [obGo EXCEPT ![h] = x][g] = obGo[g]
    BY <1>1, <2>1
  <2>4. QED
    BY <2>2, <2>3
<1>4. ASSUME NEW h \in Triggerers, CallNext(h) PROVE FALSE
  <2>1. h # g
    BY <1>4 DEF CallNext
  <2>2. \E x : obGo' = [obGo EXCEPT ![h] = x]
    BY <1>4 DEF CallNext
  <2>3. \A x : [obGo EXCEPT ![h] = x][g] = obGo[g]
    BY <1>1, <2>1
  <2>4. QED
    BY <2>2, <2>3
<1>5. ASSUME NEW h \in Triggerers, RemoveOnce(h) PROVE RemoveOnce(g)
  <2>1. \E x : obGo' = [obGo EXCEPT ![h] = x]
    BY <1>5 DEF RemoveOnce
  <2>2. h # g => \A x : [obGo EXCEPT ![h] = x][g] = obGo[g]
    BY <1>1
  <2>3. QED
    BY <1>5, <2>1, <2>2
<1>6. QED
  BY <1>1, <1>2, <1>3, <1>4, <1>5 DEF ObservableNext, Dispatch, Register, OffFunction, Off

\* One function is held once: remove takes its callback out and nothing else.
LEMMA RemovedIsOmitted ==
  ASSUME ObservableIInv, NEW e \in Names, NEW fn, NoDuplicates(e)
  PROVE  LET r == Removed(obLists[e], fn)
         IN  /\ ~r.bad
             /\ SubSeq(r.arr, 1, r.len) = Omit(obLists[e], {i \in DOMAIN obInfo : obInfo[i].fn = fn})
<1>1. PICK n \in Nat : n = Len(obInfo) /\ DOMAIN obInfo = 1..n /\ obLists \in [Names -> Seq(1..n)]
  BY DEF ObservableIInv
<1>2. PICK cbs \in Seq(1..n) : cbs = obLists[e]
  BY <1>1
<1>3. PICK set : set = {i \in DOMAIN obInfo : obInfo[i].fn = fn}
  OBVIOUS
<1>4. Len(cbs) \in Nat /\ DOMAIN cbs = 1..Len(cbs) /\ \A j \in 1..Len(cbs) : cbs[j] \in 1..n
  BY <1>2
<1>5. \A j \in 1..Len(cbs) : cbs[j] \in set <=> obInfo[cbs[j]].fn = fn
  BY <1>1, <1>3, <1>4
<1>6. \A i, j \in 1..Len(cbs) : obInfo[cbs[i]].fn = obInfo[cbs[j]].fn => i = j
  BY <1>2, <1>4 DEF NoDuplicates
<1>7. PICK k \in 1..(Len(cbs) + 1) : \A j \in 1..Len(cbs) : obInfo[cbs[j]].fn = fn <=> j = k
  <2>1. CASE \E k \in 1..Len(cbs) : obInfo[cbs[k]].fn = fn
    <3>1. PICK k \in 1..Len(cbs) : obInfo[cbs[k]].fn = fn
      BY <2>1
    <3>2. k \in 1..(Len(cbs) + 1) /\ \A j \in 1..Len(cbs) : obInfo[cbs[j]].fn = fn <=> j = k
      BY <1>4, <1>6, <3>1
    <3>3. QED
      BY <3>2
  <2>2. CASE \A k \in 1..Len(cbs) : obInfo[cbs[k]].fn # fn
    <3>1. Len(cbs) + 1 \in 1..(Len(cbs) + 1) /\ \A j \in 1..Len(cbs) : j # Len(cbs) + 1
      BY <1>4
    <3>2. QED
      BY <2>2, <3>1
  <2>3. QED
    BY <2>1, <2>2
<1>8. PICK left : left = SubSeq(Removed(cbs, fn).arr, 1, Removed(cbs, fn).len)
  OBVIOUS
<1>9. /\ ~Removed(cbs, fn).bad /\ left \in Seq(1..n)
      /\ Len(left) = IF k <= Len(cbs) THEN Len(cbs) - 1 ELSE Len(cbs)
      /\ \A a \in 1..Len(left) : left[a] = IF a < k THEN cbs[a] ELSE cbs[a + 1]
  BY <1>7, <1>8, RemovedOne, SMTT(30)
<1>10. PICK kept : kept = Omit(cbs, set)
  OBVIOUS
<1>11. \A j \in 1..Len(cbs) : cbs[j] \in set <=> j = k
  BY <1>5, <1>7
<1>12. /\ Len(kept) = IF k <= Len(cbs) THEN Len(cbs) - 1 ELSE Len(cbs)
       /\ \A a \in 1..Len(kept) : kept[a] = IF a < k THEN cbs[a] ELSE cbs[a + 1]
  BY <1>10, <1>11, OmitOne
<1>13. kept \in Seq(1..n)
  BY <1>10, OmitKeeps
<1>14. Len(left) = Len(kept) /\ \A a \in 1..Len(left) : left[a] = kept[a]
  BY <1>9, <1>12
<1>15. left = kept
  BY <1>9, <1>13, <1>14, SameList
<1>16. QED
  BY <1>2, <1>3, <1>8, <1>9, <1>10, <1>15

\* What a step does when it removes a Once callback it has called.
Exact ==
  \A g \in Triggerers, e \in Names :
    (NoDuplicates(e) /\ obGo[g].remove # 0 /\ obGo'[g].remove = 0
       /\ obInfo[obGo[g].remove].event = e) =>
      /\ ~obPanic'
      /\ obLists'[e] = Omit(obLists[e],
           {i \in DOMAIN obInfo : obInfo[i].fn = obInfo[obGo[g].remove].fn})

\* RemoveOnce takes the callback of one registration out, and no other.
LEMMA ExactKept == ObservableIInv /\ [ObservableNext]_obVars => [Exact]_obVars
<1> SUFFICES ASSUME ObservableIInv, ObservableNext,
                    NEW g \in Triggerers, NEW e \in Names, NoDuplicates(e),
                    obGo[g].remove # 0, obGo'[g].remove = 0,
                    obInfo[obGo[g].remove].event = e
             PROVE  /\ ~obPanic'
                    /\ obLists'[e] = Omit(obLists[e],
                         {i \in DOMAIN obInfo : obInfo[i].fn = obInfo[obGo[g].remove].fn})
  BY DEF Exact
<1>1. RemoveOnce(g)
  BY OnlyRemoveOnce
<1>2. PICK fn : fn = obInfo[obGo[g].remove].fn
  OBVIOUS
<1>3. RemoveEvent(e, fn)
  BY <1>1, <1>2 DEF RemoveOnce
<1>4. /\ ~Removed(obLists[e], fn).bad
      /\ SubSeq(Removed(obLists[e], fn).arr, 1, Removed(obLists[e], fn).len)
           = Omit(obLists[e], {i \in DOMAIN obInfo : obInfo[i].fn = fn})
  BY RemovedIsOmitted
<1>5. obLists \in [Names -> Seq(1..Len(obInfo))]
  BY DEF ObservableIInv
<1>6. ~obPanic' /\ obLists' = [obLists EXCEPT ![e] =
                      Omit(obLists[e], {i \in DOMAIN obInfo : obInfo[i].fn = fn})]
  BY <1>3, <1>4 DEF RemoveEvent
<1>7. QED
  BY <1>2, <1>5, <1>6

\* For any goroutines, events and callbacks: when the callback of a Once has
\* run, remove takes it out of a list that holds each function once, keeps the
\* others in their order and stays within the slice (helpers.go:36-50).
THEOREM RemovalTakesOne == ObservableSpec => RemovalExact
BY ObservableInvariance, ExactKept, PTL DEF ObservableSpec, RemovalExact, Exact

-----------------------------------------------------------------------------
(* The bounded queues account for what they were offered, for any number   *)
(* of goroutines, any capacity and any number of entries.  Both invariants *)
(* say of each number given so far where it is: the places do not overlap, *)
(* so their sizes add up.                                                  *)

\* Counting one more element, and one less.
LEMMA OneMore ==
  ASSUME NEW S, IsFiniteSet(S), NEW x, x \notin S
  PROVE  /\ IsFiniteSet(S \cup {x}) /\ Cardinality(S) \in Nat
         /\ Cardinality(S \cup {x}) = Cardinality(S) + 1
BY FS_AddElement, FS_CardinalityType

LEMMA OneLess ==
  ASSUME NEW S, IsFiniteSet(S), NEW x \in S
  PROVE  /\ IsFiniteSet(S \ {x}) /\ Cardinality(S) \in Nat
         /\ Cardinality(S \ {x}) = Cardinality(S) - 1
BY FS_RemoveElement, FS_CardinalityType

LEMMA WiderSeq ==
  ASSUME NEW S, NEW T, S \subseteq T, NEW s \in Seq(S)
  PROVE  s \in Seq(T)
OBVIOUS

\* The numbers given once n is given too.
LEMMA OneMoreNumber ==
  ASSUME NEW n \in Nat \ {0}
  PROVE  (n + 1) - 1 = n /\ 1..n = 1..(n - 1) \cup {n} /\ n \notin 1..(n - 1)
OBVIOUS

-----------------------------------------------------------------------------
(* The queue behind the log hooks.                                         *)

Entry == 1..MaxEntries

LogLine == Line(lqSent, lqHand, lqQueue)

LogIInv ==
  /\ LogQueueTypeOK /\ LogAccounted
  /\ IsFiniteSet(lqLost) /\ IsFiniteSet(lqAborted)
  /\ ToSet(LogLine) \cap (lqLost \cup lqAborted) = {} /\ lqLost \cap lqAborted = {}

LEMMA EntryIsPositive == 0 \notin Entry /\ Entry \subseteq Int
BY DEF Entry

LEMMA LogParts ==
  ASSUME LogQueueTypeOK
  PROVE  /\ lqSent \in Seq(Entry) /\ lqHand \in Entry \cup {0} /\ lqQueue \in Seq(Entry)
         /\ LogLine \in Seq(Entry) /\ Len(LogLine) \in Nat
<1>1. /\ lqSent \in Seq(Entry) /\ lqHand \in Entry \cup {0} /\ lqQueue \in Seq(Entry)
  BY LogQueueAssumption DEF LogQueueTypeOK, Entry
<1>2. LogLine \in Seq(Entry)
  BY <1>1, EntryIsPositive, LineShape DEF LogLine
<1>3. QED
  BY <1>1, <1>2

LEMMA LogPuts ==
  ASSUME LogQueueTypeOK, NEW x \in Entry
  PROVE  Line(lqSent, lqHand, Append(lqQueue, x)) = Append(LogLine, x)
<1>1. lqSent \in Seq(Entry) /\ lqHand \in Entry \cup {0} /\ lqQueue \in Seq(Entry)
  BY LogParts
<1>2. Line(lqSent, lqHand, Append(lqQueue, x)) = Append(Line(lqSent, lqHand, lqQueue), x)
  BY <1>1, EntryIsPositive, LinePut, SMTT(30)
<1>3. QED
  BY <1>2 DEF LogLine

LEMMA LogInit == LogQueueInit => LogIInv
<1> SUFFICES ASSUME LogQueueInit PROVE LogIInv
  OBVIOUS
<1>1. /\ lqQueue = <<>> /\ lqHand = 0 /\ lqSent = <<>> /\ lqLost = {} /\ lqAborted = {} /\ lqNext = 1
      /\ lqPc \in [LogWriters -> {"idle", "look", "receive"}]
      /\ lqKind \in {"kafka", "post", "get"} /\ lqCrashed \in BOOLEAN
  BY DEF LogQueueInit
<1>2. LogQueueTypeOK
  BY <1>1, LogQueueAssumption DEF LogQueueTypeOK
<1>3. LogLine = <<>>
  <2>1. LogLine = <<>> \o <<>> \o <<>>
    BY <1>1 DEF LogLine, Line
  <2>2. <<>> \o <<>> \o <<>> = <<>>
    OBVIOUS
  <2>3. QED
    BY <2>1, <2>2
<1>4. ToSet(LogLine) = {} /\ Len(LogLine) = 0 /\ Ascending(LogLine)
  BY <1>3, EmptyQueue DEF Ascending
<1>5. IsFiniteSet({}) /\ Cardinality({}) = 0
  BY FS_EmptySet
<1>6. LogAccounted
  BY <1>1, <1>4, <1>5 DEF LogAccounted, LogLine
<1>7. QED
  BY <1>1, <1>2, <1>4, <1>5, <1>6 DEF LogIInv

\* The step of an entry that joins the line.
LEMMA LogJoins ==
  ASSUME LogIInv, lqNext <= MaxEntries, lqNext' = lqNext + 1,
         lqQueue' = Append(lqQueue, lqNext), UNCHANGED <<lqHand, lqSent, lqLost, lqAborted>>
  PROVE  /\ lqQueue' \in Seq(Entry) /\ Len(lqQueue') = Len(lqQueue) + 1
         /\ LogAccounted'
         /\ ToSet(LogLine') \cap (lqLost' \cup lqAborted') = {}
<1>1. /\ lqNext \in Entry /\ lqNext \in Nat
      /\ LogLine \in Seq(Entry) /\ lqQueue \in Seq(Entry) /\ Len(LogLine) \in Nat
      /\ lqSent \in Seq(Entry) /\ lqHand \in Entry \cup {0}
  BY LogParts, LogQueueAssumption DEF LogIInv, LogQueueTypeOK, Entry
<1>2. LogLine' = Append(LogLine, lqNext)
  <2>1. Line(lqSent, lqHand, Append(lqQueue, lqNext)) = Append(LogLine, lqNext)
    BY <1>1, LogPuts DEF LogIInv
  <2>2. LogLine' = Line(lqSent, lqHand, Append(lqQueue, lqNext))
    BY DEF LogLine
  <2>3. QED
    BY <2>1, <2>2
<1>3. /\ ToSet(LogLine) \cup lqLost \cup lqAborted = 1..(lqNext - 1) /\ Ascending(LogLine)
      /\ Len(LogLine) + Cardinality(lqLost) + Cardinality(lqAborted) = lqNext - 1
      /\ ToSet(LogLine) \cap (lqLost \cup lqAborted) = {}
  BY DEF LogIInv, LogAccounted, LogLine
<1>4. /\ \A y \in ToSet(LogLine) : y < lqNext
      /\ lqNext \notin lqLost /\ lqNext \notin lqAborted
  BY <1>1, <1>3
<1>5. /\ LogLine' \in Seq(Entry) /\ Len(LogLine') = Len(LogLine) + 1
      /\ ToSet(LogLine') = ToSet(LogLine) \cup {lqNext}
  BY <1>1, <1>2, AppendQueue
<1>6. Ascending(LogLine')
  BY <1>1, <1>2, <1>3, <1>4, PutKeeps, EntryIsPositive
<1>7. /\ lqQueue' \in Seq(Entry) /\ Len(lqQueue') = Len(lqQueue) + 1
  BY <1>1, AppendQueue
<1>8. ToSet(LogLine') \cup lqLost' \cup lqAborted' = 1..(lqNext' - 1)
  <2>1. lqNext' - 1 = lqNext /\ 1..lqNext = 1..(lqNext - 1) \cup {lqNext}
    <3>1. lqNext \in Nat \ {0} /\ lqNext' = lqNext + 1
      BY <1>1 DEF Entry
    <3>2. QED
      BY <3>1, OneMoreNumber
  <2>2. ToSet(LogLine') \cup lqLost' \cup lqAborted' = (1..(lqNext - 1)) \cup {lqNext}
    BY <1>3, <1>5
  <2>3. QED
    BY <2>1, <2>2
<1>9. Len(LogLine') + Cardinality(lqLost') + Cardinality(lqAborted') = lqNext' - 1
  <2>1. Cardinality(lqLost) \in Nat /\ Cardinality(lqAborted) \in Nat
    BY FS_CardinalityType DEF LogIInv
  <2>2. PICK n \in Nat, a \in Nat, b \in Nat :
          /\ n = Len(LogLine) /\ a = Cardinality(lqLost) /\ b = Cardinality(lqAborted)
          /\ Len(LogLine') = n + 1 /\ Cardinality(lqLost') = a /\ Cardinality(lqAborted') = b
    BY <1>1, <1>5, <2>1
  <2>3. n + a + b = lqNext - 1 /\ lqNext' - 1 = lqNext
    BY <1>1, <1>3, <2>2
  <2>4. n + 1 + a + b = lqNext' - 1
    BY <1>1, <2>3
  <2>5. QED
    BY <2>2, <2>4
<1>10. LogAccounted'
  BY <1>6, <1>8, <1>9 DEF LogAccounted, LogLine
<1>11. QED
  BY <1>3, <1>4, <1>5, <1>7, <1>10

\* The step of an entry that leaves the line for the lost ones.
LEMMA LogLeaves ==
  ASSUME LogIInv, NEW x, Drops(LogLine, LogLine', x), LogLine' \in Seq(Entry),
         lqLost' = lqLost \cup {x}, UNCHANGED <<lqAborted, lqNext>>
  PROVE  /\ LogAccounted' /\ IsFiniteSet(lqLost')
         /\ ToSet(LogLine') \cap (lqLost' \cup lqAborted') = {} /\ lqLost' \cap lqAborted' = {}
         /\ x \in Entry
<1>1. LogLine \in Seq(Entry) /\ Len(LogLine) \in Nat
  BY LogParts DEF LogIInv
<1>2. /\ ToSet(LogLine) \cup lqLost \cup lqAborted = 1..(lqNext - 1) /\ Ascending(LogLine)
      /\ Len(LogLine) + Cardinality(lqLost) + Cardinality(lqAborted) = lqNext - 1
      /\ ToSet(LogLine) \cap (lqLost \cup lqAborted) = {} /\ lqLost \cap lqAborted = {}
      /\ IsFiniteSet(lqLost) /\ IsFiniteSet(lqAborted)
  BY DEF LogIInv, LogAccounted, LogLine
<1>3. IsInjective(LogLine)
  BY <1>1, <1>2, AscendingIsInjective, EntryIsPositive
<1>4. /\ x \in ToSet(LogLine) /\ Len(LogLine') = Len(LogLine) - 1
      /\ Ascending(LogLine') /\ ToSet(LogLine') = ToSet(LogLine) \ {x}
  <2>1. PICK l \in Seq(Entry), m \in Seq(Entry) : l = LogLine /\ m = LogLine'
    BY <1>1
  <2>2. Entry \subseteq Int /\ Drops(l, m, x) /\ Ascending(l) /\ IsInjective(l)
    BY <1>2, <1>3, <2>1, EntryIsPositive
  <2>3. x \in ToSet(l) /\ Len(m) = Len(l) - 1 /\ Ascending(m) /\ ToSet(m) = ToSet(l) \ {x}
    BY <2>2, DropKeeps
  <2>4. QED
    BY <2>1, <2>3
<1>5. x \notin lqLost /\ x \in Entry
  BY <1>1, <1>2, <1>4, ElementOf
<1>6. IsFiniteSet(lqLost') /\ Cardinality(lqLost) \in Nat /\ Cardinality(lqLost') = Cardinality(lqLost) + 1
  BY <1>2, <1>5, OneMore
<1>7. Cardinality(lqAborted') = Cardinality(lqAborted) /\ Cardinality(lqAborted) \in Nat
  BY <1>2, FS_CardinalityType
<1>8. Len(LogLine') + Cardinality(lqLost') + Cardinality(lqAborted') = lqNext' - 1
  <2>1. PICK n \in Nat, a \in Nat, b \in Nat :
          /\ n = Len(LogLine) /\ a = Cardinality(lqLost) /\ b = Cardinality(lqAborted)
          /\ Len(LogLine') = n - 1 /\ Cardinality(lqLost') = a + 1 /\ Cardinality(lqAborted') = b
    BY <1>1, <1>4, <1>6, <1>7
  <2>2. n + a + b = lqNext - 1 /\ lqNext' = lqNext
    BY <1>2, <2>1
  <2>3. (n - 1) + (a + 1) + b = n + a + b
    OBVIOUS
  <2>4. QED
    BY <2>1, <2>2, <2>3
<1>9. ToSet(LogLine') \cup lqLost' \cup lqAborted' = 1..(lqNext' - 1)
  BY <1>2, <1>4
<1>10. LogAccounted'
  BY <1>4, <1>8, <1>9 DEF LogAccounted, LogLine
<1>11. QED
  BY <1>2, <1>4, <1>5, <1>6, <1>10

\* Nothing joins or leaves the line.
LEMMA LogKeeps ==
  ASSUME LogIInv, LogQueueTypeOK', LogLine' = LogLine, UNCHANGED <<lqLost, lqAborted, lqNext>>
  PROVE  LogIInv'
BY DEF LogIInv, LogAccounted, LogLine

LEMMA OfferInv ==
  ASSUME LogIInv, NEW w \in LogWriters, Offer(w)
  PROVE  LogIInv'
<1>1. /\ lqNext <= MaxEntries /\ lqNext' = lqNext + 1
      /\ UNCHANGED <<lqKind, lqHand, lqSent, lqLost, lqCrashed>>
  BY DEF Offer
<1>2. LogQueueTypeOK /\ lqNext \in Nat /\ lqNext' \in 1..(MaxEntries + 1) /\ lqNext \in 1..MaxEntries
  BY <1>1, LogQueueAssumption DEF LogIInv, LogQueueTypeOK
<1>3. CASE Len(lqQueue) < QueueLength /\ lqQueue' = Append(lqQueue, lqNext) /\ UNCHANGED <<lqPc, lqAborted>>
  <2>1. /\ lqQueue' \in Seq(Entry) /\ Len(lqQueue') = Len(lqQueue) + 1 /\ LogAccounted'
        /\ ToSet(LogLine') \cap (lqLost' \cup lqAborted') = {}
    BY <1>1, <1>3, LogJoins
  <2>2. Len(lqQueue') <= QueueLength
    BY <1>3, <2>1, LogParts, LogQueueAssumption DEF LogIInv
  <2>3. LogQueueTypeOK'
    BY <1>1, <1>2, <1>3, <2>1, <2>2 DEF LogQueueTypeOK, Entry
  <2>4. QED
    BY <1>1, <1>3, <2>1, <2>3 DEF LogIInv
<1>4. CASE /\ lqAborted' = lqAborted \cup {lqNext} /\ lqPc' = [lqPc EXCEPT ![w] = "look"]
           /\ UNCHANGED lqQueue
  <2>1. LogQueueTypeOK'
    BY <1>1, <1>2, <1>4 DEF LogQueueTypeOK
  <2>2. /\ ToSet(LogLine) \cup lqLost \cup lqAborted = 1..(lqNext - 1) /\ Ascending(LogLine)
        /\ Len(LogLine) + Cardinality(lqLost) + Cardinality(lqAborted) = lqNext - 1
        /\ ToSet(LogLine) \cap (lqLost \cup lqAborted) = {} /\ lqLost \cap lqAborted = {}
        /\ IsFiniteSet(lqLost) /\ IsFiniteSet(lqAborted)
    BY DEF LogIInv, LogAccounted, LogLine
  <2>3. lqNext \notin ToSet(LogLine) /\ lqNext \notin lqLost /\ lqNext \notin lqAborted
    BY <1>2, <2>2
  <2>4. LogLine' = LogLine /\ Len(LogLine) \in Nat
    BY <1>1, <1>2, <1>4, LogParts DEF LogLine
  <2>5. /\ IsFiniteSet(lqAborted') /\ Cardinality(lqAborted) \in Nat
        /\ Cardinality(lqAborted') = Cardinality(lqAborted) + 1
    BY <1>4, <2>2, <2>3, OneMore
  <2>6. Cardinality(lqLost') = Cardinality(lqLost) /\ Cardinality(lqLost) \in Nat
    BY <1>1, <2>2, FS_CardinalityType
  <2>7. Len(LogLine') + Cardinality(lqLost') + Cardinality(lqAborted') = lqNext' - 1
    <3>1. PICK n \in Nat, a \in Nat, b \in Nat :
            /\ n = Len(LogLine) /\ a = Cardinality(lqLost) /\ b = Cardinality(lqAborted)
            /\ Len(LogLine') = n /\ Cardinality(lqLost') = a /\ Cardinality(lqAborted') = b + 1
      BY <2>4, <2>5, <2>6
    <3>2. PICK k \in Nat : k = lqNext /\ lqNext' = k + 1
      BY <1>1, <1>2
    <3>3. n + a + b = k - 1
      BY <2>2, <3>1, <3>2
    <3>4. n + a + (b + 1) = k /\ (k + 1) - 1 = k
      BY <3>3
    <3>5. QED
      BY <3>1, <3>2, <3>4
  <2>8. ToSet(LogLine') \cup lqLost' \cup lqAborted' = 1..(lqNext' - 1)
    BY <1>1, <1>2, <1>4, <2>2, <2>4
  <2>9. LogAccounted'
    BY <2>2, <2>4, <2>7, <2>8 DEF LogAccounted, LogLine
  <2>10. /\ IsFiniteSet(lqLost') /\ IsFiniteSet(lqAborted')
         /\ ToSet(LogLine') \cap (lqLost' \cup lqAborted') = {} /\ lqLost' \cap lqAborted' = {}
    BY <1>1, <1>4, <2>2, <2>3, <2>4, <2>5
  <2>11. QED
    BY <1>1, <1>4, <2>1, <2>9, <2>10 DEF LogIInv
<1>5. QED
  BY <1>3, <1>4 DEF Offer

LEMMA ReceiveAndDropInv ==
  ASSUME LogIInv, NEW w \in LogWriters, ReceiveAndDrop(w)
  PROVE  LogIInv'
<1>1. /\ lqQueue # <<>> /\ lqQueue' = Tail(lqQueue) /\ lqLost' = lqLost \cup {Head(lqQueue)}
      /\ lqPc' = [lqPc EXCEPT ![w] = "look"]
      /\ UNCHANGED <<lqKind, lqHand, lqSent, lqAborted, lqNext, lqCrashed>>
  BY DEF ReceiveAndDrop
<1>2. /\ LogQueueTypeOK /\ lqSent \in Seq(Entry) /\ lqHand \in Entry \cup {0}
      /\ lqQueue \in Seq(Entry)
  BY LogParts DEF LogIInv
<1>3. /\ Tail(lqQueue) \in Seq(Entry) /\ Len(Tail(lqQueue)) = Len(lqQueue) - 1 /\ Len(lqQueue) \in Nat
  BY <1>1, <1>2, QueueSteps, EntryIsPositive
<1>4. Drops(LogLine, LogLine', Head(lqQueue)) /\ LogLine' \in Seq(Entry)
  <2>1. Drops(Line(lqSent, lqHand, lqQueue), Line(lqSent, lqHand, Tail(lqQueue)), Head(lqQueue))
    BY <1>1, <1>2, LineSteps, EntryIsPositive
  <2>2. Line(lqSent, lqHand, Tail(lqQueue)) \in Seq(Entry)
    BY <1>2, <1>3, LineSteps, EntryIsPositive
  <2>3. LogLine' = Line(lqSent, lqHand, Tail(lqQueue))
    BY <1>1 DEF LogLine
  <2>4. QED
    BY <2>1, <2>2, <2>3 DEF LogLine
<1>5. /\ LogAccounted' /\ IsFiniteSet(lqLost') /\ Head(lqQueue) \in Entry
      /\ ToSet(LogLine') \cap (lqLost' \cup lqAborted') = {} /\ lqLost' \cap lqAborted' = {}
  BY <1>1, <1>4, LogLeaves
<1>6. LogQueueTypeOK'
  <2>1. Len(lqQueue') <= QueueLength
    BY <1>1, <1>2, <1>3, LogQueueAssumption DEF LogQueueTypeOK
  <2>2. QED
    BY <1>1, <1>2, <1>3, <1>5, <2>1 DEF LogQueueTypeOK, Entry
<1>7. QED
  BY <1>1, <1>5, <1>6 DEF LogIInv

\* The writer goroutine.
LEMMA TakeEntryInv ==
  ASSUME LogIInv, TakeEntry
  PROVE  LogIInv'
<1>1. /\ lqHand = 0 /\ lqQueue # <<>> /\ lqHand' = Head(lqQueue) /\ lqQueue' = Tail(lqQueue)
      /\ UNCHANGED <<lqKind, lqPc, lqSent, lqLost, lqAborted, lqNext, lqCrashed>>
  BY DEF TakeEntry
<1>2. LogQueueTypeOK /\ lqSent \in Seq(Entry) /\ lqQueue \in Seq(Entry)
  BY LogParts DEF LogIInv
<1>3. /\ Tail(lqQueue) \in Seq(Entry) /\ Len(Tail(lqQueue)) = Len(lqQueue) - 1 /\ Len(lqQueue) \in Nat
      /\ Head(lqQueue) \in Entry
  BY <1>1, <1>2, QueueSteps, EntryIsPositive
<1>4. LogLine' = LogLine
  <2>1. Line(lqSent, Head(lqQueue), Tail(lqQueue)) = Line(lqSent, 0, lqQueue)
    BY <1>1, <1>2, LineTake, EntryIsPositive
  <2>2. QED
    BY <1>1, <2>1 DEF LogLine
<1>5. LogQueueTypeOK'
  <2>1. Len(lqQueue') <= QueueLength /\ lqHand' \in 0..MaxEntries
    BY <1>1, <1>2, <1>3, LogQueueAssumption DEF LogQueueTypeOK, Entry
  <2>2. QED
    BY <1>1, <1>2, <1>3, <2>1 DEF LogQueueTypeOK, Entry
<1>6. QED
  BY <1>1, <1>4, <1>5, LogKeeps

LEMMA WriteDataInv ==
  ASSUME LogIInv, WriteData
  PROVE  LogIInv'
<1>1. /\ lqHand # 0 /\ UNCHANGED <<lqKind, lqPc, lqAborted, lqNext>>
  BY DEF WriteData
<1>2. LogQueueTypeOK /\ lqSent \in Seq(Entry) /\ lqQueue \in Seq(Entry) /\ lqHand \in Entry
  BY <1>1, LogParts DEF LogIInv
<1>3. CASE EntrySent
  <2>1. /\ lqSent' = Append(lqSent, lqHand) /\ lqHand' = 0
        /\ UNCHANGED <<lqQueue, lqLost, lqCrashed>>
    BY <1>3 DEF EntrySent
  <2>2. LogLine' = LogLine
    <3>1. Line(Append(lqSent, lqHand), 0, lqQueue) = Line(lqSent, lqHand, lqQueue)
      BY <1>2, LineDone, EntryIsPositive
    <3>2. QED
      BY <2>1, <3>1 DEF LogLine
  <2>3. LogQueueTypeOK'
    <3>1. Append(lqSent, lqHand) \in Seq(Entry) /\ 0 \in 0..MaxEntries
      BY <1>2, LogQueueAssumption
    <3>2. QED
      BY <1>1, <1>2, <2>1, <3>1 DEF LogQueueTypeOK, Entry
  <2>4. QED
    BY <1>1, <2>1, <2>2, <2>3, LogKeeps
<1>4. CASE KafkaFails
  <2>1. /\ lqLost' = lqLost \cup {lqHand} /\ lqHand' = 0 /\ UNCHANGED <<lqQueue, lqSent, lqCrashed>>
    BY <1>4 DEF KafkaFails
  <2>2. Drops(LogLine, LogLine', lqHand) /\ LogLine' \in Seq(Entry)
    <3>1. Drops(Line(lqSent, lqHand, lqQueue), Line(lqSent, 0, lqQueue), lqHand)
      BY <1>1, <1>2, LineSteps, EntryIsPositive
    <3>2. Line(lqSent, 0, lqQueue) \in Seq(Entry)
      BY <1>2, LineSteps, EntryIsPositive
    <3>3. LogLine' = Line(lqSent, 0, lqQueue)
      BY <2>1 DEF LogLine
    <3>4. QED
      BY <3>1, <3>2, <3>3 DEF LogLine
  <2>3. /\ LogAccounted' /\ IsFiniteSet(lqLost')
        /\ ToSet(LogLine') \cap (lqLost' \cup lqAborted') = {} /\ lqLost' \cap lqAborted' = {}
    BY <1>1, <2>1, <2>2, LogLeaves
  <2>4. LogQueueTypeOK'
    <3>1. 0 \in 0..MaxEntries
      BY LogQueueAssumption
    <3>2. QED
      BY <1>1, <1>2, <2>1, <3>1 DEF LogQueueTypeOK, Entry
  <2>5. QED
    BY <1>1, <2>3, <2>4 DEF LogIInv
<1>5. CASE lqCrashed' = TRUE /\ UNCHANGED <<lqQueue, lqHand, lqSent, lqLost>>
  <2>1. LogLine' = LogLine /\ LogQueueTypeOK'
    BY <1>1, <1>2, <1>5 DEF LogLine, LogQueueTypeOK
  <2>2. QED
    BY <1>1, <1>5, <2>1, LogKeeps
<1>6. QED
  BY <1>3, <1>4, <1>5 DEF WriteData, KafkaWriteData, WebHookWrite

LEMMA LogNextInv == LogIInv /\ [LogQueueNext]_lqVars => LogIInv'
<1> SUFFICES ASSUME LogIInv, [LogQueueNext]_lqVars PROVE LogIInv'
  OBVIOUS
<1>1. CASE UNCHANGED lqVars
  BY <1>1, LogKeeps DEF lqVars, LogIInv, LogQueueTypeOK, LogLine
<1>2. ASSUME NEW w \in LogWriters, LookAtLength(w) PROVE LogIInv'
  <2>1. /\ \E p \in {"idle", "receive"} : lqPc' = [lqPc EXCEPT ![w] = p]
        /\ UNCHANGED <<lqKind, lqQueue, lqHand, lqSent, lqLost, lqAborted, lqNext, lqCrashed>>
    BY <1>2 DEF LookAtLength
  <2>2. LogQueueTypeOK' /\ LogLine' = LogLine
    BY <2>1 DEF LogIInv, LogQueueTypeOK, LogLine
  <2>3. QED
    BY <2>1, <2>2, LogKeeps
<1>3. QED
  BY <1>1, <1>2, OfferInv, ReceiveAndDropInv, TakeEntryInv, WriteDataInv DEF LogQueueNext

\* Every entry logged is in exactly one place, and those that queued keep their
\* order, however the loops that empty a full channel race with the writer and
\* with each other (BaseCore.write, start, writeData).
THEOREM LogQueueAccounts == LogQueueSpec => []LogAccounted
<1>1. LogIInv => LogAccounted
  BY DEF LogIInv
<1>2. QED
  BY LogInit, LogNextInv, <1>1, PTL DEF LogQueueSpec

-----------------------------------------------------------------------------
(* The queue of the message collector: where the numbers below n are.      *)

Numbers(ticks) == {t[1] : t \in ticks}

Placed(line, told, ticks, n) ==
  /\ line \in Seq(Int) /\ n \in Nat \ {0}
  /\ ticks \subseteq Int \X Endpoints
  /\ IsInjective(line) /\ IsFiniteSet(told) /\ IsFiniteSet(ticks)
  /\ \A t, u \in ticks : t[1] = u[1] => t = u
  /\ ToSet(line) \cap told = {} /\ ToSet(line) \cap Numbers(ticks) = {}
  /\ told \cap Numbers(ticks) = {}
  /\ ToSet(line) \cup told \cup Numbers(ticks) = 1..(n - 1)
  /\ Len(line) + Cardinality(told) + Cardinality(ticks) = n - 1

\* The sizes are numbers.
LEMMA PlacedSizes ==
  ASSUME NEW line, NEW told, NEW ticks, NEW n, Placed(line, told, ticks, n)
  PROVE  Len(line) \in Nat /\ Cardinality(told) \in Nat /\ Cardinality(ticks) \in Nat
BY FS_CardinalityType DEF Placed

\* A new number joins the line, the told ones or the ticks.
LEMMA PlacedJoins ==
  ASSUME NEW line, NEW told, NEW ticks, NEW n, Placed(line, told, ticks, n)
  PROVE  Placed(Append(line, n), told, ticks, n + 1)
<1> DEFINE line2 == Append(line, n)
<1>1. /\ line \in Seq(Int) /\ n \in Nat \ {0} /\ n \in Int /\ IsInjective(line)
      /\ ToSet(line) \cup told \cup Numbers(ticks) = 1..(n - 1)
      /\ Len(line) + Cardinality(told) + Cardinality(ticks) = n - 1
  BY DEF Placed
<1>2. /\ (n + 1) - 1 = n /\ 1..n = 1..(n - 1) \cup {n} /\ n \notin 1..(n - 1)
  BY <1>1, OneMoreNumber
<1>3. n \notin ToSet(line) /\ n \notin told /\ n \notin Numbers(ticks)
  BY <1>1, <1>2
<1>4. line2 \in Seq(Int) /\ Len(line2) = Len(line) + 1 /\ ToSet(line2) = ToSet(line) \cup {n}
  BY <1>1, AppendQueue
<1>5. IsInjective(line2)
  BY <1>1, <1>3, AppendIsInjective
<1> HIDE DEF line2
<1>6. Len(line2) + Cardinality(told) + Cardinality(ticks) = (n + 1) - 1
  <2>1. Len(line) \in Nat /\ Cardinality(told) \in Nat /\ Cardinality(ticks) \in Nat
    BY PlacedSizes
  <2>2. Len(line) + Cardinality(told) + Cardinality(ticks) = n - 1
    BY <1>1
  <2>3. n \in Nat /\ Len(line2) = Len(line) + 1
    BY <1>1, <1>4
  <2>4. PICK a \in Nat, b \in Nat, c \in Nat :
          a = Len(line) /\ b = Cardinality(told) /\ c = Cardinality(ticks)
    BY <2>1
  <2>5. a + b + c = n - 1 /\ Len(line2) = a + 1
    BY <2>2, <2>3, <2>4
  <2>6. a + 1 + b + c = (n + 1) - 1
    BY <2>3, <2>5
  <2>7. QED
    BY <2>4, <2>5, <2>6
<1>7. ToSet(line2) \cup told \cup Numbers(ticks) = 1..((n + 1) - 1)
  BY <1>1, <1>2, <1>4
<1>8. Placed(line2, told, ticks, n + 1)
  BY <1>1, <1>3, <1>4, <1>5, <1>6, <1>7 DEF Placed
<1>9. QED
  BY <1>8 DEF line2

LEMMA PlacedRefused ==
  ASSUME NEW line, NEW told, NEW ticks, NEW n, Placed(line, told, ticks, n)
  PROVE  Placed(line, told \cup {n}, ticks, n + 1)
<1>1. /\ n \in Nat \ {0} /\ IsFiniteSet(told)
      /\ ToSet(line) \cup told \cup Numbers(ticks) = 1..(n - 1)
      /\ Len(line) + Cardinality(told) + Cardinality(ticks) = n - 1
  BY DEF Placed
<1>2. /\ (n + 1) - 1 = n /\ 1..n = 1..(n - 1) \cup {n} /\ n \notin 1..(n - 1)
  BY <1>1, OneMoreNumber
<1>3. n \notin ToSet(line) /\ n \notin told /\ n \notin Numbers(ticks)
  BY <1>1, <1>2
<1>4. IsFiniteSet(told \cup {n}) /\ Cardinality(told \cup {n}) = Cardinality(told) + 1
  BY <1>1, <1>3, OneMore
<1>5. Len(line) + Cardinality(told \cup {n}) + Cardinality(ticks) = (n + 1) - 1
  BY <1>1, <1>4, PlacedSizes
<1>6. ToSet(line) \cup (told \cup {n}) \cup Numbers(ticks) = 1..((n + 1) - 1)
  BY <1>1, <1>2
<1>7. n + 1 \in Nat \ {0}
  BY <1>1
<1>8. QED
  BY <1>3, <1>4, <1>5, <1>6, <1>7 DEF Placed

LEMMA PlacedTicks ==
  ASSUME NEW line, NEW told, NEW ticks, NEW n, NEW e \in Endpoints, Placed(line, told, ticks, n)
  PROVE  Placed(line, told, ticks \cup {<<n, e>>}, n + 1)
<1> DEFINE ticks2 == ticks \cup {<<n, e>>}
<1>1. /\ n \in Nat \ {0} /\ IsFiniteSet(ticks) /\ ticks \subseteq Int \X Endpoints
      /\ ToSet(line) \cup told \cup Numbers(ticks) = 1..(n - 1)
      /\ Len(line) + Cardinality(told) + Cardinality(ticks) = n - 1
      /\ \A t, u \in ticks : t[1] = u[1] => t = u
  BY DEF Placed
<1>2. /\ (n + 1) - 1 = n /\ 1..n = 1..(n - 1) \cup {n} /\ n \notin 1..(n - 1)
  BY <1>1, OneMoreNumber
<1>3. n \notin ToSet(line) /\ n \notin told /\ n \notin Numbers(ticks)
  BY <1>1, <1>2
<1>4. <<n, e>>[1] = n /\ <<n, e>> \in Int \X Endpoints
  BY <1>1
<1>5. Numbers(ticks2) = Numbers(ticks) \cup {n}
  BY <1>4 DEF Numbers
<1>6. \A t \in ticks : t[1] # n
  BY <1>3 DEF Numbers
<1>7. IsFiniteSet(ticks2) /\ Cardinality(ticks2) = Cardinality(ticks) + 1
  <2>1. <<n, e>> \notin ticks
    BY <1>4, <1>6
  <2>2. QED
    BY <1>1, <2>1, OneMore
<1>8. ticks2 \subseteq Int \X Endpoints /\ \A t, u \in ticks2 : t[1] = u[1] => t = u
  BY <1>1, <1>4, <1>6
<1> HIDE DEF ticks2
<1>9. Len(line) + Cardinality(told) + Cardinality(ticks2) = (n + 1) - 1
  BY <1>1, <1>7, PlacedSizes
<1>10. ToSet(line) \cup told \cup Numbers(ticks2) = 1..((n + 1) - 1)
  BY <1>1, <1>2, <1>5
<1>11. n + 1 \in Nat \ {0}
  BY <1>1
<1>12. Placed(line, told, ticks2, n + 1)
  BY <1>3, <1>5, <1>7, <1>8, <1>9, <1>10, <1>11 DEF Placed
<1>13. QED
  BY <1>12 DEF ticks2

\* A number leaves the ticks: nothing else in the ticks has it.
LEMMA TickLeaves ==
  ASSUME NEW line, NEW told, NEW ticks, NEW n, Placed(line, told, ticks, n),
         NEW m, NEW e, <<m, e>> \in ticks
  PROVE  LET rest == ticks \ {<<m, e>>}
         IN  /\ m \in Int /\ m \notin ToSet(line) /\ m \notin told
             /\ Numbers(rest) = Numbers(ticks) \ {m} /\ m \in Numbers(ticks)
             /\ IsFiniteSet(rest) /\ Cardinality(rest) = Cardinality(ticks) - 1
             /\ rest \subseteq Int \X Endpoints /\ \A t, u \in rest : t[1] = u[1] => t = u
<1> DEFINE rest == ticks \ {<<m, e>>}
<1>1. /\ ticks \subseteq Int \X Endpoints /\ IsFiniteSet(ticks)
      /\ \A t, u \in ticks : t[1] = u[1] => t = u
      /\ ToSet(line) \cap Numbers(ticks) = {} /\ told \cap Numbers(ticks) = {}
  BY DEF Placed
<1>2. <<m, e>>[1] = m
  OBVIOUS
<1>3. m \in Numbers(ticks)
  BY <1>2 DEF Numbers
<1>4. Numbers(rest) = Numbers(ticks) \ {m}
  BY <1>1, <1>2 DEF Numbers
<1>5. IsFiniteSet(rest) /\ Cardinality(rest) = Cardinality(ticks) - 1
  BY <1>1, OneLess
<1>6. m \in Int
  BY <1>1
<1>7. QED
  BY <1>1, <1>3, <1>4, <1>5, <1>6

\* The goroutine of a tick pushes its message, or tells that it could not.
LEMMA PlacedCollects ==
  ASSUME NEW line, NEW told, NEW ticks, NEW n, Placed(line, told, ticks, n),
         NEW m, NEW e, <<m, e>> \in ticks
  PROVE  /\ Placed(Append(line, m), told, ticks \ {<<m, e>>}, n)
         /\ Placed(line, told \cup {m}, ticks \ {<<m, e>>}, n)
<1> DEFINE rest == ticks \ {<<m, e>>}
           line2 == Append(line, m)
           told2 == told \cup {m}
<1>1. /\ m \in Int /\ m \notin ToSet(line) /\ m \notin told
      /\ Numbers(rest) = Numbers(ticks) \ {m} /\ m \in Numbers(ticks)
      /\ IsFiniteSet(rest) /\ Cardinality(rest) = Cardinality(ticks) - 1
      /\ rest \subseteq Int \X Endpoints /\ \A t, u \in rest : t[1] = u[1] => t = u
  BY TickLeaves
<1>2. /\ line \in Seq(Int) /\ n \in Nat \ {0} /\ IsInjective(line) /\ IsFiniteSet(told)
      /\ ToSet(line) \cup told \cup Numbers(ticks) = 1..(n - 1)
      /\ Len(line) + Cardinality(told) + Cardinality(ticks) = n - 1
      /\ ToSet(line) \cap told = {} /\ ToSet(line) \cap Numbers(ticks) = {}
      /\ told \cap Numbers(ticks) = {}
  BY DEF Placed
<1>3. line2 \in Seq(Int) /\ Len(line2) = Len(line) + 1 /\ ToSet(line2) = ToSet(line) \cup {m}
  BY <1>1, <1>2, AppendQueue
<1>4. IsInjective(line2)
  BY <1>1, <1>2, AppendIsInjective
<1>5. IsFiniteSet(told2) /\ Cardinality(told2) = Cardinality(told) + 1
  BY <1>1, <1>2, OneMore
<1>6. told2 = told \cup {m}
  OBVIOUS
<1> HIDE DEF rest, line2, told2
<1>7. /\ Len(line2) + Cardinality(told) + Cardinality(rest) = n - 1
      /\ Len(line) + Cardinality(told2) + Cardinality(rest) = n - 1
  <2>1. Len(line) \in Nat /\ Cardinality(told) \in Nat /\ Cardinality(ticks) \in Nat
    BY PlacedSizes
  <2>2. QED
    BY <1>1, <1>2, <1>3, <1>5, <2>1, SMTT(30)
<1>8. Placed(line2, told, rest, n)
  <2>1. ToSet(line2) \cup told \cup Numbers(rest) = 1..(n - 1)
    BY <1>1, <1>2, <1>3
  <2>2. /\ ToSet(line2) \cap told = {} /\ ToSet(line2) \cap Numbers(rest) = {}
        /\ told \cap Numbers(rest) = {}
    BY <1>1, <1>2, <1>3
  <2>3. QED
    BY <1>1, <1>2, <1>3, <1>4, <1>7, <2>1, <2>2 DEF Placed
<1>9. Placed(line, told2, rest, n)
  <2>1. ToSet(line) \cup told2 \cup Numbers(rest) = 1..(n - 1)
    BY <1>1, <1>2, <1>6
  <2>2. /\ ToSet(line) \cap told2 = {} /\ ToSet(line) \cap Numbers(rest) = {}
        /\ told2 \cap Numbers(rest) = {}
    BY <1>1, <1>2, <1>6
  <2>3. QED
    BY <1>1, <1>2, <1>5, <1>7, <2>1, <2>2 DEF Placed
<1>10. QED
  BY <1>8, <1>9 DEF rest, line2, told2

\* A message of the line is told to have failed.
LEMMA PlacedFails ==
  ASSUME NEW line, NEW told, NEW ticks, NEW n, Placed(line, told, ticks, n),
         NEW x, NEW line2 \in Seq(Int), Drops(line, line2, x)
  PROVE  Placed(line2, told \cup {x}, ticks, n)
<1>1. /\ line \in Seq(Int) /\ n \in Nat \ {0} /\ IsInjective(line) /\ IsFiniteSet(told)
      /\ ToSet(line) \cup told \cup Numbers(ticks) = 1..(n - 1)
      /\ Len(line) + Cardinality(told) + Cardinality(ticks) = n - 1
      /\ ToSet(line) \cap told = {} /\ ToSet(line) \cap Numbers(ticks) = {}
      /\ told \cap Numbers(ticks) = {}
      /\ IsFiniteSet(ticks) /\ ticks \subseteq Int \X Endpoints
      /\ \A t, u \in ticks : t[1] = u[1] => t = u
  BY DEF Placed
<1>2. /\ x \in ToSet(line) /\ Len(line2) = Len(line) - 1
      /\ IsInjective(line2) /\ ToSet(line2) = ToSet(line) \ {x}
  BY <1>1, DropKeeps
<1>3. IsFiniteSet(told \cup {x}) /\ Cardinality(told \cup {x}) = Cardinality(told) + 1
  BY <1>1, <1>2, OneMore
<1>4. Len(line2) + Cardinality(told \cup {x}) + Cardinality(ticks) = n - 1
  <2>1. Len(line) \in Nat /\ Cardinality(told) \in Nat /\ Cardinality(ticks) \in Nat
    BY PlacedSizes
  <2>2. QED
    BY <1>1, <1>2, <1>3, <2>1
<1>5. /\ ToSet(line2) \cup (told \cup {x}) \cup Numbers(ticks) = 1..(n - 1)
      /\ ToSet(line2) \cap (told \cup {x}) = {} /\ ToSet(line2) \cap Numbers(ticks) = {}
      /\ (told \cup {x}) \cap Numbers(ticks) = {}
  BY <1>1, <1>2
<1>6. QED
  BY <1>1, <1>2, <1>3, <1>4, <1>5 DEF Placed

-----------------------------------------------------------------------------
(* The collector's steps.                                                  *)

Message == 1..MaxPushed

CollectorLine == Line(coSent, coHand, coQueue)

Gone == coRefused \cup (coErrors \cup coLost)

\* The publishing goroutine has a message in hand exactly while it publishes.
CollectorIInv ==
  /\ CollectorTypeOK
  /\ Placed(CollectorLine, Gone, coTicks, coNext)
  /\ coHand # 0 <=> coRun = "publish"
  /\ FullyConfigured => coLost = {}
  /\ coEmpty \subseteq ToSet(coSent) \cap Uncoded

LEMMA MessageIsPositive == 0 \notin Message /\ Message \subseteq Int
BY DEF Message

LEMMA CollectorParts ==
  ASSUME CollectorTypeOK
  PROVE  /\ coSent \in Seq(Message) /\ coHand \in Message \cup {0} /\ coQueue \in Seq(Message)
         /\ CollectorLine \in Seq(Message)
         /\ coNext \in Nat /\ coTicks \subseteq Message \X Endpoints
<1>1. /\ coSent \in Seq(Message) /\ coHand \in Message \cup {0} /\ coQueue \in Seq(Message)
  BY CollectorAssumption DEF CollectorTypeOK, Message
<1>2. CollectorLine \in Seq(Message)
  BY <1>1, MessageIsPositive, LineShape DEF CollectorLine
<1>3. coNext \in Nat /\ coTicks \subseteq Message \X Endpoints
  BY CollectorAssumption DEF CollectorTypeOK, Message
<1>4. QED
  BY <1>1, <1>2, <1>3

LEMMA CollectorPuts ==
  ASSUME CollectorTypeOK, NEW x \in Message
  PROVE  Line(coSent, coHand, Append(coQueue, x)) = Append(CollectorLine, x)
<1>1. coSent \in Seq(Message) /\ coHand \in Message \cup {0} /\ coQueue \in Seq(Message)
  BY CollectorParts
<1>2. Line(coSent, coHand, Append(coQueue, x)) = Append(Line(coSent, coHand, coQueue), x)
  BY <1>1, MessageIsPositive, LinePut, SMTT(30)
<1>3. QED
  BY <1>2 DEF CollectorLine

\* A message goes on the queue.
LEMMA CollectorQueues ==
  ASSUME CollectorTypeOK, NEW x \in Message, HasSpace, coQueue' = Append(coQueue, x),
         UNCHANGED <<coSent, coHand>>
  PROVE  /\ coQueue' \in Seq(Message) /\ Len(coQueue') <= CollectorQueue
         /\ CollectorLine' = Append(CollectorLine, x)
<1>1. coQueue \in Seq(Message)
  BY CollectorParts
<1>2. coQueue' \in Seq(Message) /\ Len(coQueue') = Len(coQueue) + 1 /\ Len(coQueue) \in Nat
  BY <1>1, AppendQueue
<1>3. Len(coQueue') <= CollectorQueue
  BY <1>2, CollectorAssumption DEF HasSpace
<1>4. CollectorLine' = Line(coSent, coHand, Append(coQueue, x))
  BY DEF CollectorLine
<1>5. QED
  BY <1>2, <1>3, <1>4, CollectorPuts

LEMMA CollectorInitInv == CollectorInit => CollectorIInv
<1> SUFFICES ASSUME CollectorInit PROVE CollectorIInv
  OBVIOUS
<1>1. /\ coQueue = <<>> /\ coTicks = {} /\ coTickers = Endpoints
      /\ coRun = "select" /\ coHand = 0 /\ coQuit = FALSE
      /\ coSent = <<>> /\ coRefused = {} /\ coErrors = {} /\ coNext = 1
  BY DEF CollectorInit
<1>9. coLost = {} /\ coEmpty = {} /\ coConfig \subseteq Settings /\ Gone = {}
  BY DEF CollectorInit, Gone
<1>2. CollectorTypeOK
  <2>1. <<>> \in Seq(1..MaxPushed) /\ Len(<<>>) <= CollectorQueue
    BY CollectorAssumption
  <2>2. 0 \in 0..MaxPushed /\ 1 \in 1..(MaxPushed + 1)
    BY CollectorAssumption
  <2>3. coQueue \in Seq(1..MaxPushed) /\ Len(coQueue) <= CollectorQueue /\ coSent \in Seq(1..MaxPushed)
    BY <1>1, <2>1
  <2>4. QED
    BY <1>1, <1>9, <2>2, <2>3 DEF CollectorTypeOK
<1>3. CollectorLine = <<>>
  <2>1. CollectorLine = <<>> \o <<>> \o <<>>
    BY <1>1 DEF CollectorLine, Line
  <2>2. <<>> \o <<>> \o <<>> = <<>>
    OBVIOUS
  <2>3. QED
    BY <2>1, <2>2
<1>4. /\ ToSet(<<>>) = {} /\ Len(<<>>) = 0 /\ IsInjective(<<>>) /\ <<>> \in Seq(Int)
  BY EmptyQueue DEF IsInjective
<1>5. IsFiniteSet({}) /\ Cardinality({}) = 0
  BY FS_EmptySet
<1>6. Numbers({}) = {}
  BY DEF Numbers
<1>7. Placed(<<>>, {}, {}, 1)
  BY <1>4, <1>5, <1>6 DEF Placed
<1>8. QED
  BY <1>1, <1>2, <1>3, <1>7, <1>9 DEF CollectorIInv

LEMMA TickInv ==
  ASSUME CollectorIInv, NEW e \in Endpoints, Tick(e)
  PROVE  CollectorIInv'
<1>1. /\ coNext <= MaxPushed /\ coTicks' = coTicks \cup {<<coNext, e>>} /\ coNext' = coNext + 1
      /\ UNCHANGED <<coQueue, coTickers, coRun, coHand, coQuit, coSent, coRefused, coErrors>>
      /\ UNCHANGED <<coLost, coEmpty, coConfig>>
  BY DEF Tick
<1>2. CollectorTypeOK /\ Placed(CollectorLine, Gone, coTicks, coNext)
  BY DEF CollectorIInv
<1>3. CollectorLine' = CollectorLine
  BY <1>1 DEF CollectorLine
<1>4. Placed(CollectorLine, Gone, coTicks', coNext')
  BY <1>1, <1>2, PlacedTicks
<1>5. CollectorTypeOK'
  <2>1. coNext \in 1..MaxPushed /\ coNext' \in 1..(MaxPushed + 1)
    BY <1>1, <1>2, CollectorAssumption DEF CollectorTypeOK
  <2>2. coTicks' \subseteq (1..MaxPushed) \X Endpoints
    BY <1>1, <1>2, <2>1 DEF CollectorTypeOK
  <2>3. QED
    BY <1>1, <1>2, <2>1, <2>2 DEF CollectorTypeOK
<1>6. QED
  BY <1>1, <1>3, <1>4, <1>5 DEF CollectorIInv, Gone, FullyConfigured

\* An error is told where there is an errorFunc and lost where there is none.
LEMMA TellsOrLoses ==
  ASSUME CollectorIInv, NEW m, TellError(m), UNCHANGED <<coRefused, coConfig>>
  PROVE  /\ Gone' = Gone \cup {m} /\ coErrors' \cup coLost' = (coErrors \cup coLost) \cup {m}
         /\ FullyConfigured' => coLost' = {}
<1>1. CASE "errorFunc" \in coConfig /\ coErrors' = coErrors \cup {m} /\ UNCHANGED coLost
  BY <1>1 DEF CollectorIInv, Gone, FullyConfigured
<1>2. CASE "errorFunc" \notin coConfig /\ coLost' = coLost \cup {m} /\ UNCHANGED coErrors
  BY <1>2 DEF Gone, FullyConfigured, Settings
<1>3. QED
  BY <1>1, <1>2 DEF TellError

LEMMA CollectInv ==
  ASSUME CollectorIInv, NEW e \in Endpoints, NEW m \in 1..MaxPushed, Collect(m, e)
  PROVE  CollectorIInv'
<1>1. /\ <<m, e>> \in coTicks /\ coTicks' = coTicks \ {<<m, e>>}
      /\ UNCHANGED <<coTickers, coRun, coHand, coQuit, coSent, coRefused, coEmpty, coConfig, coNext>>
  BY DEF Collect
<1>2. /\ CollectorTypeOK /\ Placed(CollectorLine, Gone, coTicks, coNext)
      /\ m \in Message
  BY DEF CollectorIInv, Message
<1>3. /\ Placed(Append(CollectorLine, m), Gone, coTicks', coNext)
      /\ Placed(CollectorLine, Gone \cup {m}, coTicks', coNext)
  BY <1>1, <1>2, PlacedCollects
<1>4. coTicks' \subseteq (1..MaxPushed) \X Endpoints
  BY <1>1, <1>2 DEF CollectorTypeOK
<1>5. CASE HasSpace /\ coQueue' = Append(coQueue, m) /\ UNCHANGED <<coErrors, coLost>>
  <2>1. /\ coQueue' \in Seq(Message) /\ Len(coQueue') <= CollectorQueue
        /\ CollectorLine' = Append(CollectorLine, m)
    BY <1>1, <1>2, <1>5, CollectorQueues
  <2>2. CollectorTypeOK'
    BY <1>1, <1>2, <1>4, <1>5, <2>1 DEF CollectorTypeOK, Message
  <2>3. QED
    BY <1>1, <1>3, <1>5, <2>1, <2>2 DEF CollectorIInv, Gone, FullyConfigured
<1>6. CASE TellError(m) /\ UNCHANGED coQueue
  <2>1. CollectorLine' = CollectorLine
    BY <1>1, <1>6 DEF CollectorLine
  <2>2. /\ Gone' = Gone \cup {m} /\ coErrors' \cup coLost' = (coErrors \cup coLost) \cup {m}
        /\ FullyConfigured' => coLost' = {}
    BY <1>1, <1>6, TellsOrLoses DEF CollectorIInv
  <2>3. CollectorTypeOK'
    BY <1>1, <1>2, <1>4, <1>6, <2>2 DEF CollectorTypeOK, Message
  <2>4. QED
    BY <1>1, <1>3, <2>1, <2>2, <2>3 DEF CollectorIInv
<1>7. QED
  BY <1>5, <1>6 DEF Collect

LEMMA ApplicationPushInv ==
  ASSUME CollectorIInv, ApplicationPush
  PROVE  CollectorIInv'
<1>1. /\ coNext <= MaxPushed /\ coNext' = coNext + 1
      /\ UNCHANGED <<coTickers, coTicks, coRun, coHand, coQuit, coSent, coErrors, coLost, coEmpty,
                     coConfig>>
  BY DEF ApplicationPush
<1>2. CollectorTypeOK /\ Placed(CollectorLine, Gone, coTicks, coNext)
  BY DEF CollectorIInv
<1>3. coNext \in Message /\ coNext' \in 1..(MaxPushed + 1)
  BY <1>1, <1>2, CollectorAssumption DEF CollectorTypeOK, Message
<1>4. CASE HasSpace /\ coQueue' = Append(coQueue, coNext) /\ UNCHANGED coRefused
  <2>1. /\ coQueue' \in Seq(Message) /\ Len(coQueue') <= CollectorQueue
        /\ CollectorLine' = Append(CollectorLine, coNext)
    BY <1>1, <1>2, <1>3, <1>4, CollectorQueues
  <2>2. Placed(Append(CollectorLine, coNext), Gone, coTicks, coNext + 1)
    BY <1>2, PlacedJoins
  <2>3. CollectorTypeOK'
    BY <1>1, <1>2, <1>3, <1>4, <2>1 DEF CollectorTypeOK, Message
  <2>4. QED
    BY <1>1, <1>4, <2>1, <2>2, <2>3 DEF CollectorIInv, Gone, FullyConfigured
<1>5. CASE coRefused' = coRefused \cup {coNext} /\ UNCHANGED coQueue
  <2>1. CollectorLine' = CollectorLine
    BY <1>1, <1>5 DEF CollectorLine
  <2>2. Placed(CollectorLine, Gone \cup {coNext}, coTicks, coNext + 1)
    BY <1>2, PlacedRefused
  <2>3. Gone' = Gone \cup {coNext}
    BY <1>1, <1>5 DEF Gone
  <2>4. CollectorTypeOK'
    BY <1>1, <1>2, <1>3, <1>5 DEF CollectorTypeOK, Message
  <2>5. QED
    BY <1>1, <2>1, <2>2, <2>3, <2>4 DEF CollectorIInv, FullyConfigured
<1>6. QED
  BY <1>4, <1>5 DEF ApplicationPush

\* The publishing goroutine.
LEMMA RunTakesInv ==
  ASSUME CollectorIInv, RunTakes
  PROVE  CollectorIInv'
<1>1. /\ coRun = "select" /\ coQueue # <<>> /\ coRun' = "publish"
      /\ coHand' = Head(coQueue) /\ coQueue' = Tail(coQueue)
      /\ UNCHANGED <<coTickers, coTicks, coQuit, coSent, coRefused, coErrors, coNext>>
      /\ UNCHANGED <<coLost, coEmpty, coConfig>>
  BY DEF RunTakes
<1>2. /\ CollectorTypeOK /\ Placed(CollectorLine, Gone, coTicks, coNext)
      /\ coHand = 0 /\ coSent \in Seq(Message) /\ coQueue \in Seq(Message)
  BY <1>1, CollectorParts DEF CollectorIInv
<1>3. /\ Tail(coQueue) \in Seq(Message) /\ Len(Tail(coQueue)) = Len(coQueue) - 1
      /\ Len(coQueue) \in Nat /\ Head(coQueue) \in Message /\ Head(coQueue) # 0
  BY <1>1, <1>2, QueueSteps, MessageIsPositive
<1>4. CollectorLine' = CollectorLine
  <2>1. Line(coSent, Head(coQueue), Tail(coQueue)) = Line(coSent, 0, coQueue)
    BY <1>1, <1>2, LineTake, MessageIsPositive
  <2>2. QED
    BY <1>1, <1>2, <2>1 DEF CollectorLine
<1>5. CollectorTypeOK'
  <2>1. Len(coQueue') <= CollectorQueue /\ coHand' \in 0..MaxPushed
    BY <1>1, <1>2, <1>3, CollectorAssumption DEF CollectorTypeOK, Message
  <2>2. QED
    BY <1>1, <1>2, <1>3, <2>1 DEF CollectorTypeOK, Message
<1>6. QED
  BY <1>1, <1>2, <1>3, <1>4, <1>5 DEF CollectorIInv, Gone, FullyConfigured

LEMMA PublishMessageInv ==
  ASSUME CollectorIInv, PublishMessage
  PROVE  CollectorIInv'
<1>1. /\ coRun = "publish" /\ coHand' = 0 /\ coRun' = "select"
      /\ UNCHANGED <<coQueue, coTickers, coTicks, coQuit, coRefused, coConfig, coNext>>
  BY DEF PublishMessage
<1>2. /\ CollectorTypeOK /\ Placed(CollectorLine, Gone, coTicks, coNext)
      /\ coHand \in Message /\ coSent \in Seq(Message) /\ coQueue \in Seq(Message)
      /\ FullyConfigured => coLost = {}
      /\ coEmpty \subseteq ToSet(coSent) \cap Uncoded
  BY <1>1, CollectorParts DEF CollectorIInv
<1>3. CASE Handed(coHand)
  <2>1. CollectorLine' = CollectorLine
    <3>1. Line(Append(coSent, coHand), 0, coQueue) = Line(coSent, coHand, coQueue)
      BY <1>2, LineDone, MessageIsPositive
    <3>2. QED
      BY <1>1, <1>3, <3>1 DEF CollectorLine, Handed
  <2>2. coEmpty' \subseteq ToSet(coSent') \cap Uncoded
    <3>1. ToSet(Append(coSent, coHand)) = ToSet(coSent) \cup {coHand}
      BY <1>2, AppendQueue
    <3>2. QED
      BY <1>2, <1>3, <3>1 DEF Handed
  <2>3. CollectorTypeOK'
    <3>1. Append(coSent, coHand) \in Seq(Message) /\ 0 \in 0..MaxPushed
      BY <1>2, CollectorAssumption
    <3>2. coEmpty' \subseteq Message
      BY <1>2, <1>3 DEF Handed, CollectorTypeOK, Message
    <3>3. QED
      BY <1>1, <1>2, <1>3, <3>1, <3>2 DEF CollectorTypeOK, Message, Handed
  <2>4. QED
    BY <1>1, <1>2, <1>3, <2>1, <2>2, <2>3 DEF CollectorIInv, Handed, Gone, FullyConfigured
\* The message leaves the line: told, or lost.
<1>4. ASSUME UNCHANGED <<coSent, coEmpty>>, Gone' = Gone \cup {coHand},
             coErrors' \cup coLost' = (coErrors \cup coLost) \cup {coHand},
             FullyConfigured' => coLost' = {}
      PROVE  CollectorIInv'
  <2>1. Drops(CollectorLine, CollectorLine', coHand) /\ CollectorLine' \in Seq(Message)
    <3>1. coHand # 0
      BY <1>2, MessageIsPositive
    <3>2. Drops(Line(coSent, coHand, coQueue), Line(coSent, 0, coQueue), coHand)
      BY <1>2, <3>1, LineSteps, MessageIsPositive
    <3>3. Line(coSent, 0, coQueue) \in Seq(Message)
      BY <1>2, LineSteps, MessageIsPositive
    <3>4. CollectorLine' = Line(coSent, 0, coQueue)
      BY <1>1, <1>4 DEF CollectorLine
    <3>5. QED
      BY <3>2, <3>3, <3>4 DEF CollectorLine
  <2>2. CollectorLine' \in Seq(Int)
    BY <2>1, MessageIsPositive, WiderSeq
  <2>3. Placed(CollectorLine', Gone \cup {coHand}, coTicks, coNext)
    BY <1>2, <2>1, <2>2, PlacedFails
  <2>4. CollectorTypeOK'
    <3>1. 0 \in 0..MaxPushed
      BY CollectorAssumption
    <3>2. QED
      BY <1>1, <1>2, <1>4, <3>1 DEF CollectorTypeOK, Message
  <2>5. QED
    BY <1>1, <1>2, <1>4, <2>3, <2>4 DEF CollectorIInv
<1>5. CASE TellError(coHand) /\ UNCHANGED <<coSent, coEmpty>>
  BY <1>1, <1>4, <1>5, TellsOrLoses
<1>6. CASE /\ "broker" \notin coConfig /\ coLost' = coLost \cup {coHand}
           /\ UNCHANGED <<coErrors, coSent, coEmpty>>
  <2>1. ~FullyConfigured'
    BY <1>1, <1>6 DEF FullyConfigured, Settings
  <2>2. Gone' = Gone \cup {coHand} /\ coErrors' \cup coLost' = (coErrors \cup coLost) \cup {coHand}
    BY <1>1, <1>6 DEF Gone
  <2>3. QED
    BY <1>4, <1>6, <2>1, <2>2
<1>7. QED
  BY <1>3, <1>5, <1>6 DEF PublishMessage

LEMMA CollectorNextInv == CollectorIInv /\ [CollectorNext]_coVars => CollectorIInv'
<1> SUFFICES ASSUME CollectorIInv, [CollectorNext]_coVars PROVE CollectorIInv'
  OBVIOUS
<1>1. ASSUME UNCHANGED <<coQueue, coTicks, coHand, coSent, coRefused, coErrors, coNext>>,
             UNCHANGED <<coLost, coEmpty, coConfig>>,
             coTickers' \subseteq Endpoints, coQuit' \in BOOLEAN,
             coRun' \in {"select", "publish", "ended"},
             coRun' = "publish" <=> coRun = "publish"
      PROVE  CollectorIInv'
  <2>1. CollectorTypeOK' /\ CollectorLine' = CollectorLine
    BY <1>1 DEF CollectorIInv, CollectorTypeOK, CollectorLine
  <2>2. QED
    BY <1>1, <2>1 DEF CollectorIInv, Gone, FullyConfigured
<1>2. /\ coTickers \subseteq Endpoints /\ coQuit \in BOOLEAN
      /\ coRun \in {"select", "publish", "ended"}
  BY DEF CollectorIInv, CollectorTypeOK
<1>3. CASE UNCHANGED coVars
  BY <1>1, <1>2, <1>3 DEF coVars
<1>4. ASSUME NEW e \in Endpoints, TickerStops(e) PROVE CollectorIInv'
  BY <1>1, <1>2, <1>4 DEF TickerStops
<1>5. CASE RunQuits
  BY <1>1, <1>2, <1>5 DEF RunQuits
<1>6. CASE CollectorStop
  BY <1>1, <1>2, <1>6 DEF CollectorStop
<1>7. QED
  BY <1>3, <1>4, <1>5, <1>6, TickInv, CollectInv, ApplicationPushInv, RunTakesInv,
     PublishMessageInv DEF CollectorNext

LEMMA CollectorIInvSuffices == CollectorIInv => PushedAccounted
<1> SUFFICES ASSUME CollectorIInv PROVE PushedAccounted
  OBVIOUS
<1>1. /\ ToSet(CollectorLine) \cup Gone \cup Numbers(coTicks) = 1..(coNext - 1)
      /\ Len(CollectorLine) + Cardinality(Gone) + Cardinality(coTicks) = coNext - 1
  BY DEF CollectorIInv, Placed
<1>2. (FullyConfigured => coLost = {}) /\ coEmpty \subseteq ToSet(coSent) \cap Uncoded
  BY DEF CollectorIInv
<1>3. QED
  BY <1>1, <1>2 DEF PushedAccounted, CollectorLine, Gone, Numbers

\* Every message of the collector is in one place (with the broker, in hand,
\* queued, with a tick, refused, told to errorFunc, or lost), only a collector
\* without a broker or without an errorFunc loses one, and the broker gets an
\* empty body only where the codec fails (push, collect, publish).
THEOREM CollectorAccounts == CollectorSpec => []PushedAccounted
BY CollectorInitInv, CollectorNextInv, CollectorIInvSuffices, PTL DEF CollectorSpec

\* The two queues share no state: together they account for what both were
\* offered.
THEOREM BothQueuesAccount == LogQueueSpec /\ CollectorSpec => []QueuesAccount
<1>1. LogAccounted /\ PushedAccounted => QueuesAccount
  BY DEF QueuesAccount
<1>2. QED
  BY LogQueueAccounts, CollectorAccounts, <1>1, PTL
=============================================================================
