---------------------------- MODULE WsRpc_proofs ----------------------------
(***************************************************************************)
(* Proofs about WsRpc, for any number of connections, requests, records    *)
(* and request ids, with every failure the model knows: lost connections,  *)
(* Conn.Close by the application, oversized messages, requests without     *)
(* params.                                                                 *)
(***************************************************************************)
EXTENDS WsRpc, TLAPS

LEMMA TaskPairs ==
  /\ \A c \in Conns, n \in Slot : <<c, n>> \in Task
  /\ \A t \in Task : t[1] \in Conns /\ t[2] \in Slot /\ t = <<t[1], t[2]>>
BY DEF Task

LEMMA WaitingIsTask ==
  ASSUME ConnTypes, NEW c \in Conns
  PROVE  /\ Waiting(c) \in Task /\ Waiting(c)[1] = c /\ Waiting(c)[2] = seq[c] + 1
         /\ seq[c] > 0 => /\ Current(c) \in Task /\ Current(c)[1] = c
                          /\ Current(c)[2] = seq[c]
BY MaxReqAssumption DEF ConnTypes, Waiting, Current, Task, Slot

\* What the free lists hand out was either free or never allocated.
LEMMA ObtainableFact ==
  ASSUME NEW free, NEW used, NEW cells, NEW r \in Obtainable(free, used, cells),
         free \subseteq used, used \subseteq cells
  PROVE  r \in cells /\ (r \in free \/ r \notin used)
<1>1. CASE free = {}
  <2>1. ~(cells \subseteq used) /\ r = CHOOSE x \in cells : x \notin used
    BY <1>1 DEF Obtainable, New
  <2>2. \E x \in cells : x \notin used
    BY <2>1
  <2>3. QED
    BY <2>1, <2>2
<1>2. CASE free # {}
  BY <1>2 DEF Obtainable
<1>3. QED
  BY <1>1, <1>2

LEMMA InitIInv == Init => IInv
<1> SUFFICES ASSUME Init PROVE IInv
  OBVIOUS
<1> USE MaxReqAssumption, CellAssumption
<1>1. TypeOK
  <2>1. ConnTypes
    BY DEF Init, ConnTypes, LoopStates
  <2>2. SockTypes
    BY DEF Init, SockTypes
  <2>3. TaskTypes
    BY DEF Init, TaskTypes, TaskStates, AllOutcomes
  <2>4. PoolTypes
    BY DEF Init, PoolTypes
  <2>5. HistTypes
    BY DEF Init, HistTypes
  <2>6. QED
    BY <2>1, <2>2, <2>3, <2>4, <2>5 DEF TypeOK
<1>2. LoopInv
  <2>1. \A c \in Conns : Waiting(c) \in Task
    BY <1>1, WaitingIsTask DEF TypeOK
  <2>2. \A t \in Task : tpc[t] = "idle" /\ t[2] \in Slot /\ seq[t[1]] = 0
    BY TaskPairs DEF Init
  <2>3. \A c \in Conns : tpc[Waiting(c)] = "idle" /\ loop[c] = "get" /\ seq[c] = 0
    BY <2>1 DEF Init
  <2>4. QED
    BY <2>2, <2>3 DEF LoopInv, Slot
<1>3. RecordsOwned /\ RecordsAllocated /\ RecordsTrue
  BY DEF Init, RecordsOwned, RecordsAllocated, RecordsTrue, HoldsReq, HoldsResp, Unanswered
<1>4. PendingExact /\ RepliesInv /\ ReplyCorrect
  BY TaskPairs DEF Init, PendingExact, RepliesInv, ReplyCorrect, Unanswered
<1>5. QED
  BY <1>1, <1>2, <1>3, <1>4 DEF IInv

-----------------------------------------------------------------------------
LEMMA GetRequestIInv ==
  ASSUME IInv, NEW c \in Conns, GetRequest(c)
  PROVE  IInv'
<1> DEFINE w == Waiting(c)
<1> USE DEF GetRequest
<1>1. PICK r \in Obtainable(freeReq, usedReq, ReqCells) :
        /\ freeReq' = freeReq \ {r}
        /\ usedReq' = usedReq \cup {r}
        /\ reqSeq'  = [reqSeq EXCEPT ![r] = 0]
        /\ treq'    = [treq EXCEPT ![w] = r]
  BY DEF Unlink, ZeroRequest
<1>2. r \in ReqCells /\ (r \in freeReq \/ r \notin usedReq)
  BY ObtainableFact DEF IInv, TypeOK, PoolTypes, RecordsAllocated
<1>3. w \in Task /\ w[1] = c /\ w[2] = seq[c] + 1
  BY WaitingIsTask DEF IInv, TypeOK
<1>4. tpc[w] = "idle" /\ tpc' = [tpc EXCEPT ![w] = "read"]
  BY DEF IInv, LoopInv
<1>5. TypeOK'
  <2>1. ConnTypes' /\ SockTypes' /\ HistTypes'
    BY DEF IInv, TypeOK, ConnTypes, SockTypes, HistTypes, LoopStates, sockVars, histVars
  <2>2. TaskTypes'
    BY <1>1, <1>2, <1>3, <1>4 DEF IInv, TypeOK, TaskTypes, TaskStates
  <2>3. PoolTypes'
    BY <1>1, <1>2, MaxReqAssumption DEF IInv, TypeOK, PoolTypes
  <2>4. QED
    BY <2>1, <2>2, <2>3 DEF TypeOK
<1>6. LoopInv'
  BY <1>3, <1>4, MaxReqAssumption
     DEF IInv, TypeOK, ConnTypes, TaskTypes, LoopInv, Waiting, Current, Slot, Task
<1>7. RecordsOwned'
  BY <1>1, <1>2, <1>3, <1>4
     DEF IInv, TypeOK, TaskTypes, RecordsOwned, RecordsAllocated, HoldsReq, HoldsResp, Unanswered
<1>8. RecordsAllocated'
  BY <1>1, <1>2, <1>3, <1>4
     DEF IInv, TypeOK, TaskTypes, RecordsAllocated, HoldsReq, HoldsResp, Unanswered
<1>9. RecordsTrue'
  BY <1>1, <1>2, <1>3, <1>4
     DEF IInv, TypeOK, TaskTypes, PoolTypes, RecordsTrue, RecordsOwned, RecordsAllocated,
         HoldsReq, Unanswered
<1>10. PendingExact' /\ RepliesInv' /\ ReplyCorrect'
  BY <1>3, <1>4
     DEF IInv, TypeOK, TaskTypes, PendingExact, RepliesInv, ReplyCorrect, Unanswered, histVars
<1>11. QED
  BY <1>5, <1>6, <1>7, <1>8, <1>9, <1>10 DEF IInv

LEMMA ReadRequestHeaderIInv ==
  ASSUME IInv, NEW c \in Conns, NEW i \in Ids, NEW k \in Kinds,
         ReadRequestHeader(c, i, k)
  PROVE  IInv'
<1> DEFINE w == Waiting(c)
<1> USE DEF ReadRequestHeader
<1>1. w \in Task /\ w[1] = c /\ w[2] = seq[c] + 1 /\ w[2] \in Slot
  BY WaitingIsTask, TaskPairs DEF IInv, TypeOK
<1>2. seq[c] \in Nat /\ seq' = [seq EXCEPT ![c] = seq[c] + 1] /\ seq'[c] = w[2]
  BY <1>1, MaxReqAssumption DEF IInv, TypeOK, ConnTypes
<1>3. tpc[w] = "read" /\ tpc' = [tpc EXCEPT ![w] = "dispatch"]
  BY DEF IInv, LoopInv
<1>4. treq[w] \in ReqCells
  BY <1>1, <1>3, CellAssumption
     DEF IInv, TypeOK, PoolTypes, RecordsAllocated, HoldsReq
<1>5. /\ pending' = [pending EXCEPT ![c] = [pending[c] EXCEPT ![w[2]] = <<i>>]]
      /\ reqSeq'  = [reqSeq EXCEPT ![treq[w]] = w[2]]
  BY <1>2
<1>6. TypeOK'
  <2>1. ConnTypes' /\ SockTypes'
    BY <1>1, <1>2, <1>5, MaxReqAssumption
       DEF IInv, TypeOK, ConnTypes, SockTypes, LoopStates, sockVars
  <2>2. TaskTypes' /\ HistTypes'
    BY <1>1, <1>3 DEF IInv, TypeOK, TaskTypes, HistTypes, TaskStates
  <2>3. PoolTypes'
    BY <1>1, <1>2, <1>4, <1>5, MaxReqAssumption DEF IInv, TypeOK, PoolTypes, Slot
  <2>4. QED
    BY <2>1, <2>2, <2>3 DEF TypeOK
<1>7. LoopInv'
  <2>1. /\ seq'[c] = seq[c] + 1 /\ \A d \in Conns \ {c} : seq'[d] = seq[d]
        /\ loop'[c] = "dispatch" /\ \A d \in Conns \ {c} : loop'[d] = loop[d]
        /\ tpc'[w] = "dispatch" /\ \A t \in Task \ {w} : tpc'[t] = tpc[t]
    BY <1>1, <1>2, <1>3 DEF IInv, TypeOK, ConnTypes, TaskTypes
  <2>2. \A t \in Task : t[1] = c /\ t[2] = seq[c] + 1 => t = w
    BY <1>1, TaskPairs
  <2>3. \A t \in Task : /\ t[2] > seq'[t[1]] + 1 => tpc'[t] = "idle"
                        /\ t[2] = seq'[t[1]] + 1 => tpc'[t] \in {"idle", "read", "dead"}
                        /\ t[2] <= seq'[t[1]]    => tpc'[t] \notin {"idle", "read"}
    BY <1>1, <1>2, <2>1, <2>2, TaskPairs
       DEF IInv, TypeOK, ConnTypes, LoopInv, Slot
  <2>4. ASSUME NEW d \in Conns, d # c
        PROVE  /\ Waiting(d)' = Waiting(d) /\ Current(d)' = Current(d)
               /\ seq'[d] = seq[d] /\ loop'[d] = loop[d]
               /\ tpc'[Waiting(d)] = tpc[Waiting(d)]
               /\ seq[d] > 0 => tpc'[Current(d)] = tpc[Current(d)]
    BY <2>1, <2>4, <1>1, WaitingIsTask DEF IInv, TypeOK, Waiting, Current
  <2>5. Waiting(c)' \in Task /\ Waiting(c)'[1] = c /\ Waiting(c)'[2] = seq[c] + 2
    BY <1>2, <1>6, MaxReqAssumption DEF TypeOK, ConnTypes, Waiting, Task, Slot
  <2>6. /\ tpc'[Waiting(c)'] = "idle"
        /\ seq'[c] > 0 /\ Current(c)' = w
    BY <1>1, <1>2, <2>1, <2>5 DEF IInv, LoopInv, Current, Waiting
  <2>7. QED
    BY <2>1, <2>3, <2>4, <2>6 DEF IInv, LoopInv
<1>8. RecordsOwned' /\ RecordsAllocated'
  <2>1. \A t \in Task : /\ tpc'[t] \in HoldsReq <=> tpc[t] \in HoldsReq
                        /\ tpc'[t] \in HoldsResp <=> tpc[t] \in HoldsResp
    BY <1>1, <1>3 DEF IInv, TypeOK, TaskTypes, HoldsReq, HoldsResp, Unanswered
  <2>2. QED
    BY <2>1 DEF IInv, RecordsOwned, RecordsAllocated
<1>9. RecordsTrue'
  BY <1>1, <1>3, <1>4, <1>5
     DEF IInv, TypeOK, TaskTypes, PoolTypes, RecordsTrue, RecordsOwned, HoldsReq, Unanswered
<1>10. PendingExact'
  <2> SUFFICES ASSUME NEW t \in Task
               PROVE  pending'[t[1]][t[2]] = IF tpc'[t] \in Unanswered THEN asked'[t] ELSE <<>>
    BY DEF PendingExact
  <2>1. CASE t = w
    BY <2>1, <1>1, <1>3, <1>5 DEF IInv, TypeOK, ConnTypes, TaskTypes, HistTypes, Unanswered
  <2>2. CASE t # w
    <3>1. t[1] # c \/ t[2] # w[2]
      BY <2>2, <1>1, TaskPairs
    <3>2. pending'[t[1]][t[2]] = pending[t[1]][t[2]]
      BY <3>1, <1>1, <1>5, TaskPairs DEF IInv, TypeOK, ConnTypes
    <3>3. QED
      BY <3>2, <2>2, <1>1, <1>3 DEF IInv, TypeOK, TaskTypes, HistTypes, PendingExact
  <2>3. QED
    BY <2>1, <2>2
<1>11. RepliesInv' /\ ReplyCorrect'
  BY <1>1, <1>3
     DEF IInv, TypeOK, TaskTypes, HistTypes, RepliesInv, ReplyCorrect, Unanswered
<1>12. QED
  BY <1>6, <1>7, <1>8, <1>9, <1>10, <1>11 DEF IInv

LEMMA ReadFailsIInv ==
  ASSUME IInv, NEW c \in Conns, ReadFails(c)
  PROVE  IInv'
<1> DEFINE w == Waiting(c)
<1> USE DEF ReadFails
<1>1. w \in Task /\ w[1] = c /\ w[2] = seq[c] + 1
  BY WaitingIsTask DEF IInv, TypeOK
<1>2. tpc[w] = "read" /\ tpc' = [tpc EXCEPT ![w] = "dead"]
  BY DEF IInv, LoopInv
<1>3. TypeOK'
  BY <1>2 DEF IInv, TypeOK, ConnTypes, SockTypes, TaskTypes, PoolTypes, HistTypes,
              LoopStates, TaskStates, sockVars, poolVars, histVars
<1>4. LoopInv'
  BY <1>1, <1>2, MaxReqAssumption
     DEF IInv, TypeOK, ConnTypes, TaskTypes, LoopInv, Waiting, Current, Slot, Task
<1>5. RecordsOwned' /\ RecordsAllocated' /\ RecordsTrue'
  BY <1>1, <1>2
     DEF IInv, TypeOK, TaskTypes, RecordsOwned, RecordsAllocated, RecordsTrue,
         HoldsReq, HoldsResp, Unanswered, poolVars
<1>6. PendingExact' /\ RepliesInv' /\ ReplyCorrect'
  BY <1>1, <1>2
     DEF IInv, TypeOK, TaskTypes, PendingExact, RepliesInv, ReplyCorrect, Unanswered, histVars
<1>7. QED
  BY <1>3, <1>4, <1>5, <1>6 DEF IInv

-----------------------------------------------------------------------------
(* Steps of the serve loop that read nothing.                              *)

LEMMA DispatchIInv ==
  ASSUME IInv, NEW c \in Conns, Dispatch(c)
  PROVE  IInv'
<1> DEFINE t == Current(c)
<1> USE DEF Dispatch
<1>1. /\ seq[c] > 0 /\ t \in Task /\ t[1] = c /\ t[2] = seq[c]
      /\ Waiting(c) \in Task /\ Waiting(c) # t
  BY WaitingIsTask DEF IInv, TypeOK, LoopInv, ConnTypes
<1>2. tpc[t] = "dispatch" /\ loop[c] = "dispatch" /\ tpc[Waiting(c)] = "idle"
  BY DEF IInv, LoopInv
<1>3. PICK l \in {"panic", "wait", "get"}, p \in {"dispatch", "prepare", "call"},
           f \in AllOutcomes :
        /\ loop'   = [loop EXCEPT ![c] = l]
        /\ tpc'    = [tpc EXCEPT ![t] = p]
        /\ outcome' = [outcome EXCEPT ![t] = f]
  <2>1. outcome[t] \in AllOutcomes /\ outcome = [outcome EXCEPT ![t] = outcome[t]]
    BY <1>1 DEF IInv, TypeOK, TaskTypes
  <2>2. tpc = [tpc EXCEPT ![t] = "dispatch"]
    BY <1>1, <1>2 DEF IInv, TypeOK, TaskTypes
  <2>3. CASE loop' = [loop EXCEPT ![c] = "panic"] /\ UNCHANGED <<tpc, outcome>>
    BY <2>1, <2>2, <2>3
  <2>4. CASE /\ loop'   = [loop EXCEPT ![c] = "wait"]
             /\ tpc'    = [tpc EXCEPT ![t] = "prepare"]
             /\ outcome' = [outcome EXCEPT ![t] = "error"]
    BY <2>4 DEF AllOutcomes
  <2>5. CASE /\ loop' = [loop EXCEPT ![c] = "get"]
             /\ tpc'  = [tpc EXCEPT ![t] = "call"]
             /\ UNCHANGED outcome
    BY <2>1, <2>5
  <2>6. QED
    BY <2>3, <2>4, <2>5
<1>4. TypeOK'
  BY <1>3 DEF IInv, TypeOK, ConnTypes, SockTypes, TaskTypes, PoolTypes, HistTypes,
              LoopStates, TaskStates, sockVars, poolVars, histVars
<1>5. LoopInv'
  <2>1. /\ tpc'[t] = p /\ \A u \in Task \ {t} : tpc'[u] = tpc[u]
        /\ loop'[c] = l /\ \A d \in Conns \ {c} : loop'[d] = loop[d]
        /\ seq' = seq /\ \A d \in Conns : Waiting(d)' = Waiting(d) /\ Current(d)' = Current(d)
    BY <1>1, <1>3 DEF IInv, TypeOK, ConnTypes, TaskTypes, Waiting, Current
  <2>2. \A u \in Task : /\ u[2] > seq'[u[1]] + 1 => tpc'[u] = "idle"
                        /\ u[2] = seq'[u[1]] + 1 => tpc'[u] \in {"idle", "read", "dead"}
                        /\ u[2] <= seq'[u[1]]    => tpc'[u] \notin {"idle", "read"}
    <3> TAKE u \in Task
    <3>1. CASE u = t
      <4>1. seq[c] \in Int /\ u[2] = seq[c] /\ u[1] = c /\ tpc'[u] = p
        BY <3>1, <1>1, <2>1, MaxReqAssumption DEF IInv, TypeOK, ConnTypes
      <4>2. QED
        BY <4>1, <2>1
    <3>2. CASE u # t
      <4>1. tpc'[u] = tpc[u]
        BY <3>2, <2>1
      <4>2. QED
        BY <4>1, <2>1 DEF IInv, LoopInv
    <3>3. QED
      BY <3>1, <3>2
  <2>3. \A d \in Conns \ {c} : /\ Waiting(d) \in Task /\ Waiting(d) # t
                               /\ seq[d] > 0 => Current(d) \in Task /\ Current(d) # t
    BY <1>1, WaitingIsTask DEF IInv, TypeOK
  <2>4. QED
    BY <1>1, <1>2, <2>1, <2>2, <2>3 DEF IInv, LoopInv
<1>6. \A u \in Task : /\ tpc'[u] \in HoldsReq <=> tpc[u] \in HoldsReq
                      /\ tpc'[u] \in HoldsResp <=> tpc[u] \in HoldsResp
                      /\ tpc'[u] \in Unanswered <=> tpc[u] \in Unanswered
  BY <1>1, <1>2, <1>3 DEF IInv, TypeOK, TaskTypes, HoldsReq, HoldsResp, Unanswered
<1>7. RecordsOwned' /\ RecordsAllocated'
  BY <1>6 DEF IInv, RecordsOwned, RecordsAllocated, poolVars
<1>8. RecordsTrue'
  BY <1>1, <1>2, <1>3, <1>6 DEF IInv, TypeOK, TaskTypes, RecordsTrue, poolVars
<1>9. PendingExact' /\ RepliesInv' /\ ReplyCorrect'
  BY <1>1, <1>2, <1>3, <1>6
     DEF IInv, TypeOK, TaskTypes, PendingExact, RepliesInv, ReplyCorrect, Unanswered, histVars
<1>10. QED
  BY <1>4, <1>5, <1>7, <1>8, <1>9 DEF IInv

\* Terminate, LoopLock and LoopClose touch no task and no record.
LEMMA LoopEndIInv ==
  ASSUME IInv, NEW c \in Conns, Terminate(c) \/ LoopLock(c) \/ LoopClose(c)
  PROVE  IInv'
<1> USE DEF Terminate, LoopLock, LoopClose, CloseSocket
<1>1. UNCHANGED <<seq, pending, notes, taskVars, poolVars, histVars, crashed>>
  OBVIOUS
<1>2. \E l \in {"lock", "close", "done", "panic"} : loop' = [loop EXCEPT ![c] = l]
  OBVIOUS
<1>3. ConnTypes' /\ SockTypes'
  BY <1>1, <1>2 DEF IInv, TypeOK, ConnTypes, SockTypes, LoopStates, sockVars
<1>4. TypeOK'
  BY <1>1, <1>3 DEF IInv, TypeOK, TaskTypes, PoolTypes, HistTypes, taskVars, poolVars, histVars
<1>5. LoopInv'
  BY <1>1, <1>2 DEF IInv, TypeOK, ConnTypes, LoopInv, Waiting, Current, taskVars
<1>6. RecordsOwned' /\ RecordsAllocated' /\ RecordsTrue'
  BY <1>1 DEF IInv, RecordsOwned, RecordsAllocated, RecordsTrue, taskVars, poolVars
<1>7. PendingExact' /\ RepliesInv' /\ ReplyCorrect'
  BY <1>1 DEF IInv, PendingExact, RepliesInv, ReplyCorrect, taskVars, histVars
<1>8. QED
  BY <1>4, <1>5, <1>6, <1>7 DEF IInv

-----------------------------------------------------------------------------
(* Steps of the goroutines that work for a task.                           *)

\* What a goroutine past the dispatch does to itself, and to the loop that
\* waits for it, does not disturb LoopInv.
LEMMA TaskKeepsLoopInv ==
  ASSUME IInv, NEW t \in Task, NEW p \in TaskStates,
         tpc[t] \notin {"idle", "read", "dispatch", "dead"},
         p \notin {"idle", "read", "dispatch"},
         tpc' = [tpc EXCEPT ![t] = p],
         seq' = seq,
         \/ loop' = loop
         \/ loop[t[1]] = "wait" /\ \E l \in {"get", "panic"} :
                                     loop' = [loop EXCEPT ![t[1]] = l]
  PROVE  LoopInv'
<1>1. /\ tpc'[t] = p /\ \A u \in Task \ {t} : tpc'[u] = tpc[u]
      /\ \A c \in Conns : Waiting(c)' = Waiting(c) /\ Current(c)' = Current(c)
  BY DEF IInv, TypeOK, TaskTypes, Waiting, Current
<1>2. t[2] <= seq[t[1]] /\ t # Waiting(t[1])
  BY TaskPairs, WaitingIsTask, MaxReqAssumption
     DEF IInv, TypeOK, ConnTypes, LoopInv, Slot
<1>3. \A c \in Conns : /\ Waiting(c) \in Task /\ Waiting(c) # t
                       /\ seq[c] > 0 => Current(c) \in Task
  BY <1>2, WaitingIsTask DEF IInv, TypeOK
<1>4. \A u \in Task : /\ u[2] > seq'[u[1]] + 1 => tpc'[u] = "idle"
                      /\ u[2] = seq'[u[1]] + 1 => tpc'[u] \in {"idle", "read", "dead"}
                      /\ u[2] <= seq'[u[1]]    => tpc'[u] \notin {"idle", "read"}
  BY <1>1, <1>2, TaskPairs, MaxReqAssumption DEF IInv, TypeOK, ConnTypes, LoopInv, Slot
<1>5. \A c \in Conns : /\ loop'[c] = "read" => loop[c] = "read"
                       /\ loop'[c] \in {"get", "dispatch", "wait"} =>
                            loop[c] \in {"get", "dispatch", "wait"}
                       /\ loop'[c] = "dispatch" => loop[c] = "dispatch"
                       /\ loop'[c] = "wait" => loop[c] = "wait"
  BY TaskPairs DEF IInv, TypeOK, ConnTypes
<1>6. \A c \in Conns :
        /\ loop'[c] = "read" => tpc'[Waiting(c)'] = "read"
        /\ loop'[c] \in {"get", "dispatch", "wait"} => tpc'[Waiting(c)'] = "idle"
        /\ loop'[c] = "dispatch" => seq'[c] > 0 /\ tpc'[Current(c)'] = "dispatch"
        /\ loop'[c] = "wait" => seq'[c] > 0
  BY <1>1, <1>3, <1>5 DEF IInv, LoopInv
<1>7. QED
  BY <1>4, <1>6 DEF LoopInv

LEMMA HandlerReturnsIInv ==
  ASSUME IInv, NEW t \in Task, HandlerReturns(t)
  PROVE  IInv'
<1> USE DEF HandlerReturns
<1>1. tpc[t] = "call" /\ tpc' = [tpc EXCEPT ![t] = "prepare"]
  OBVIOUS
<1>2. TypeOK'
  BY KindsAssumption
     DEF IInv, TypeOK, ConnTypes, SockTypes, TaskTypes, PoolTypes, HistTypes,
         TaskStates, connVars, sockVars, poolVars, histVars
<1>3. LoopInv'
  BY <1>1, TaskKeepsLoopInv DEF TaskStates, connVars
<1>4. \A u \in Task : /\ tpc'[u] \in HoldsReq <=> tpc[u] \in HoldsReq
                      /\ tpc'[u] \in HoldsResp <=> tpc[u] \in HoldsResp
                      /\ tpc'[u] \in Unanswered <=> tpc[u] \in Unanswered
  BY <1>1 DEF IInv, TypeOK, TaskTypes, HoldsReq, HoldsResp, Unanswered
<1>5. RecordsOwned' /\ RecordsAllocated'
  BY <1>4 DEF IInv, RecordsOwned, RecordsAllocated, poolVars
<1>6. RecordsTrue'
  BY <1>1, <1>4 DEF IInv, TypeOK, TaskTypes, RecordsTrue, poolVars
<1>7. PendingExact' /\ RepliesInv' /\ ReplyCorrect'
  BY <1>1, <1>4
     DEF IInv, TypeOK, TaskTypes, PendingExact, RepliesInv, ReplyCorrect, Unanswered,
         connVars, histVars
<1>8. QED
  BY <1>2, <1>3, <1>5, <1>6, <1>7 DEF IInv

LEMMA PrepareResponseIInv ==
  ASSUME IInv, NEW t \in Task, PrepareResponse(t)
  PROVE  IInv'
<1> USE DEF PrepareResponse
<1>1. PICK r \in Obtainable(freeResp, usedResp, RespCells) :
        /\ freeResp' = freeResp \ {r}
        /\ usedResp' = usedResp \cup {r}
        /\ tresp'    = [tresp EXCEPT ![t] = r]
        /\ resp'     = [resp EXCEPT ![r] =
                          [seq |-> reqSeq[treq[t]], err |-> FALSE \/ outcome[t] = "error"]]
  BY DEF Unlink, ZeroResponse, FillResponse
<1>2. r \in RespCells /\ (r \in freeResp \/ r \notin usedResp)
  BY ObtainableFact DEF IInv, TypeOK, PoolTypes, RecordsAllocated
<1>3. tpc[t] = "prepare" /\ tpc' = [tpc EXCEPT ![t] = "lock"]
  OBVIOUS
<1>4. reqSeq[treq[t]] = t[2] /\ treq[t] \in ReqCells
  BY <1>3 DEF IInv, RecordsTrue, RecordsAllocated, TypeOK, PoolTypes, TaskTypes,
              HoldsReq, Unanswered
<1>5. TypeOK'
  <2>1. ConnTypes' /\ SockTypes' /\ HistTypes'
    BY DEF IInv, TypeOK, ConnTypes, SockTypes, HistTypes, connVars, sockVars, histVars
  <2>2. TaskTypes'
    BY <1>1, <1>2 DEF IInv, TypeOK, TaskTypes, TaskStates
  <2>3. PoolTypes'
    BY <1>1, <1>2, <1>4 DEF IInv, TypeOK, PoolTypes
  <2>4. QED
    BY <2>1, <2>2, <2>3 DEF TypeOK
<1>6. LoopInv'
  BY <1>3, TaskKeepsLoopInv DEF TaskStates, connVars
<1>7. \A u \in Task : /\ tpc'[u] \in HoldsReq <=> tpc[u] \in HoldsReq
                      /\ tpc'[u] \in HoldsResp <=> tpc[u] \in HoldsResp \/ u = t
                      /\ tpc'[u] \in Unanswered <=> tpc[u] \in Unanswered
                      /\ tpc'[u] \in {"lock", "write"} <=>
                           tpc[u] \in {"lock", "write"} \/ u = t
                      /\ tpc[t] \notin HoldsResp
  BY <1>3 DEF IInv, TypeOK, TaskTypes, HoldsReq, HoldsResp, Unanswered
<1>8. \A u \in Task : u # t => tresp'[u] = tresp[u]
  BY <1>1 DEF IInv, TypeOK, TaskTypes
<1>9. tresp'[t] = r /\ \A u \in Task : tpc[u] \in HoldsResp => tresp[u] # r
  BY <1>1, <1>2 DEF IInv, TypeOK, TaskTypes, RecordsOwned, RecordsAllocated
<1>10. RecordsOwned' /\ RecordsAllocated'
  BY <1>1, <1>2, <1>7, <1>8, <1>9 DEF IInv, RecordsOwned, RecordsAllocated
<1>11. RecordsTrue'
  <2>1. resp'[r] = [seq |-> t[2], err |-> outcome[t] = "error"]
    BY <1>1, <1>2, <1>4 DEF IInv, TypeOK, PoolTypes
  <2>2. \A u \in Task : tpc[u] \in HoldsResp => resp'[tresp[u]] = resp[tresp[u]]
    BY <1>1, <1>9 DEF IInv, TypeOK, PoolTypes, RecordsAllocated
  <2>3. QED
    BY <2>1, <2>2, <1>7, <1>8, <1>9 DEF IInv, RecordsTrue, HoldsResp
<1>12. PendingExact' /\ RepliesInv' /\ ReplyCorrect'
  BY <1>3, <1>7
     DEF IInv, TypeOK, TaskTypes, PendingExact, RepliesInv, ReplyCorrect, Unanswered,
         connVars, histVars
<1>13. QED
  BY <1>5, <1>6, <1>10, <1>11, <1>12 DEF IInv

LEMMA LockSendingIInv ==
  ASSUME IInv, NEW t \in Task, LockSending(t)
  PROVE  IInv'
<1> USE DEF LockSending
<1>1. tpc[t] = "lock" /\ tpc' = [tpc EXCEPT ![t] = "write"]
  OBVIOUS
<1>2. TypeOK'
  BY DEF IInv, TypeOK, ConnTypes, SockTypes, TaskTypes, PoolTypes, HistTypes,
         TaskStates, sockVars, poolVars, histVars
<1>3. LoopInv'
  BY <1>1, TaskKeepsLoopInv DEF TaskStates
<1>4. \A u \in Task : /\ tpc'[u] \in HoldsReq <=> tpc[u] \in HoldsReq
                      /\ tpc'[u] \in HoldsResp <=> tpc[u] \in HoldsResp
                      /\ tpc'[u] \in Unanswered <=> tpc[u] \in Unanswered
                      /\ tpc'[u] \in {"lock", "write"} <=> tpc[u] \in {"lock", "write"}
  BY <1>1 DEF IInv, TypeOK, TaskTypes, HoldsReq, HoldsResp, Unanswered
<1>5. RecordsOwned' /\ RecordsAllocated' /\ RecordsTrue'
  BY <1>4 DEF IInv, RecordsOwned, RecordsAllocated, RecordsTrue, poolVars
<1>6. PendingExact' /\ RepliesInv' /\ ReplyCorrect'
  BY <1>1, <1>4
     DEF IInv, TypeOK, TaskTypes, PendingExact, RepliesInv, ReplyCorrect, Unanswered, histVars
<1>7. QED
  BY <1>2, <1>3, <1>5, <1>6 DEF IInv

\* The id WriteResponse looks up is the one the peer sent with the request.
LEMMA WriteResponseFinds ==
  ASSUME IInv, NEW t \in Task, tpc[t] = "write"
  PROVE  /\ resp[tresp[t]].seq = t[2]
         /\ asked[t] # <<>> /\ pending[t[1]][t[2]] = asked[t]
         /\ asked[t][1] \in Ids
         /\ Marshals(tresp[t], outcome[t]) <=> outcome[t] # "badResult"
         /\ ReplyFor(t[1], tresp[t], outcome[t]) =
              [id |-> asked[t][1], body |-> Said(outcome[t])]
         /\ Said(outcome[t]) \in Bodies
<1>1. resp[tresp[t]] = [seq |-> t[2], err |-> outcome[t] = "error"]
  BY DEF IInv, RecordsTrue
<1>2. asked[t] # <<>> /\ pending[t[1]][t[2]] = asked[t]
  BY DEF IInv, RepliesInv, PendingExact, Unanswered
<1>3. PICK i \in Ids : asked[t] = <<i>>
  BY <1>2 DEF IInv, TypeOK, HistTypes
<1>4. outcome[t] \in AllOutcomes
  BY DEF IInv, TypeOK, TaskTypes
<1>5. /\ BodyFor(tresp[t], outcome[t]) = Said(outcome[t])
      /\ BodyFor(tresp[t], outcome[t]) = "result" <=> outcome[t] \in {"result", "badResult"}
      /\ Said(outcome[t]) \in Bodies
  <2>1. resp[tresp[t]].err = (outcome[t] = "error")
    BY <1>1
  <2>2. CASE outcome[t] = "error"
    BY <2>1, <2>2 DEF BodyFor, Said, Bodies
  <2>3. CASE outcome[t] = "emptyError"
    BY <2>1, <2>3 DEF BodyFor, Said, Bodies
  <2>4. CASE outcome[t] \in {"result", "badResult"}
    BY <2>1, <2>4 DEF BodyFor, Said, Bodies
  <2>5. QED
    BY <1>4, <2>2, <2>3, <2>4 DEF AllOutcomes
<1>6. QED
  BY <1>1, <1>2, <1>3, <1>5 DEF ReplyFor, Marshals

LEMMA WriteResponseIInv ==
  ASSUME IInv, NEW t \in Task, WriteResponse(t)
  PROVE  IInv'
<1> DEFINE c == t[1]
<1>1. /\ tpc[t] = "write" /\ c \in Conns /\ t[2] \in Slot
      /\ UNCHANGED <<seq, notes, kind, outcome, treq, tresp, poolVars, asked>>
  BY TaskPairs DEF WriteResponse
<1>2. /\ resp[tresp[t]].seq = t[2] /\ asked[t] # <<>>
      /\ pending[c][t[2]] = asked[t]
      /\ asked[t][1] \in Ids
      /\ Marshals(tresp[t], outcome[t]) <=> outcome[t] # "badResult"
      /\ ReplyFor(c, tresp[t], outcome[t]) =
           [id |-> asked[t][1], body |-> Said(outcome[t])]
      /\ Said(outcome[t]) \in Bodies
  BY <1>1, WriteResponseFinds
<1>3. pending' = [pending EXCEPT ![c][t[2]] = <<>>]
  BY <1>2 DEF WriteResponse, Forget
<1>4. PICK p \in {"freeResp", "dead"} : tpc' = [tpc EXCEPT ![t] = p]
  BY DEF WriteResponse
<1>5. \/ loop' = loop
      \/ loop[c] = "wait" /\ \E l \in {"get", "panic"} : loop' = [loop EXCEPT ![c] = l]
  BY DEF WriteResponse, Inline
<1>6. \/ replies' = replies
      \/ /\ Marshals(tresp[t], outcome[t])
         /\ replies' = [replies EXCEPT ![t] = Append(@, ReplyFor(c, tresp[t], outcome[t]))]
  BY DEF WriteResponse, Encode
<1>7. replies[t] = <<>>
  BY <1>1 DEF IInv, RepliesInv, Unanswered
<1>8. \/ replies' = replies
      \/ /\ outcome[t] # "badResult"
         /\ replies' = [replies EXCEPT ![t] =
                          <<[id |-> asked[t][1], body |-> Said(outcome[t])]>>]
  BY <1>2, <1>6, <1>7
<1>9. TypeOK'
  <2>1. ConnTypes'
    BY <1>1, <1>3, <1>5 DEF IInv, TypeOK, ConnTypes, LoopStates, WriteResponse, Unlock
  <2>2. SockTypes'
    BY <1>1 DEF IInv, TypeOK, SockTypes, WriteResponse, Encode, EncodePanics,
                CloseSocket, sockVars
  <2>3. TaskTypes' /\ PoolTypes'
    BY <1>1, <1>4 DEF IInv, TypeOK, TaskTypes, PoolTypes, TaskStates, poolVars
  <2>4. HistTypes'
    BY <1>1, <1>2, <1>8 DEF IInv, TypeOK, HistTypes, TaskTypes, Reply
  <2>5. QED
    BY <2>1, <2>2, <2>3, <2>4 DEF TypeOK
<1>10. LoopInv'
  BY <1>1, <1>4, <1>5, TaskKeepsLoopInv DEF TaskStates
<1>11. \A u \in Task : /\ tpc'[u] \in HoldsReq => tpc[u] \in HoldsReq
                       /\ tpc'[u] \in HoldsResp => tpc[u] \in HoldsResp
                       /\ tpc'[u] \in Unanswered <=> tpc[u] \in Unanswered /\ u # t
                       /\ tpc'[u] \in {"lock", "write"} => tpc[u] \in {"lock", "write"}
                       /\ tpc'[u] \in {"idle", "read"} => tpc[u] \in {"idle", "read"} /\ u # t
  BY <1>1, <1>4 DEF IInv, TypeOK, TaskTypes, HoldsReq, HoldsResp, Unanswered
<1>12. RecordsOwned' /\ RecordsAllocated' /\ RecordsTrue'
  BY <1>1, <1>11 DEF IInv, RecordsOwned, RecordsAllocated, RecordsTrue, poolVars
<1>13. PendingExact'
  <2> SUFFICES ASSUME NEW u \in Task
               PROVE  pending'[u[1]][u[2]] = IF tpc'[u] \in Unanswered THEN asked'[u] ELSE <<>>
    BY DEF PendingExact
  <2>1. CASE u = t
    BY <2>1, <1>1, <1>3, <1>11 DEF IInv, TypeOK, ConnTypes
  <2>2. CASE u # t
    <3>1. u[1] # c \/ u[2] # t[2]
      BY <2>2, TaskPairs
    <3>2. pending'[u[1]][u[2]] = pending[u[1]][u[2]]
      BY <3>1, <1>1, <1>3, TaskPairs DEF IInv, TypeOK, ConnTypes
    <3>3. QED
      BY <3>2, <2>2, <1>1, <1>11 DEF IInv, PendingExact
  <2>3. QED
    BY <2>1, <2>2
<1>14. RepliesInv' /\ ReplyCorrect'
  BY <1>1, <1>8, <1>11
     DEF IInv, TypeOK, HistTypes, RepliesInv, ReplyCorrect
<1>15. QED
  BY <1>9, <1>10, <1>12, <1>13, <1>14 DEF IInv

LEMMA FreeResponseIInv ==
  ASSUME IInv, NEW t \in Task, FreeResponse(t)
  PROVE  IInv'
<1> USE DEF FreeResponse
<1>1. tpc[t] = "freeResp" /\ tpc' = [tpc EXCEPT ![t] = "freeReq"]
  OBVIOUS
<1>2. tresp[t] \in usedResp /\ usedResp \subseteq RespCells
  BY <1>1 DEF IInv, RecordsAllocated, HoldsResp, TypeOK, PoolTypes
<1>3. TypeOK'
  BY <1>2 DEF IInv, TypeOK, ConnTypes, SockTypes, TaskTypes, PoolTypes, HistTypes,
              TaskStates, connVars, sockVars, histVars
<1>4. LoopInv'
  BY <1>1, TaskKeepsLoopInv DEF TaskStates, connVars
<1>5. \A u \in Task : /\ tpc'[u] \in HoldsReq <=> tpc[u] \in HoldsReq
                      /\ tpc'[u] \in HoldsResp <=> tpc[u] \in HoldsResp /\ u # t
                      /\ tpc'[u] \in Unanswered <=> tpc[u] \in Unanswered
                      /\ tpc'[u] \in {"lock", "write"} <=> tpc[u] \in {"lock", "write"}
                      /\ tpc'[u] \in {"idle", "read"} <=> tpc[u] \in {"idle", "read"}
                      /\ tpc[t] \in HoldsResp
  BY <1>1 DEF IInv, TypeOK, TaskTypes, HoldsReq, HoldsResp, Unanswered
<1>6. RecordsOwned' /\ RecordsAllocated' /\ RecordsTrue'
  BY <1>2, <1>5 DEF IInv, RecordsOwned, RecordsAllocated, RecordsTrue
<1>7. PendingExact' /\ RepliesInv' /\ ReplyCorrect'
  BY <1>5 DEF IInv, PendingExact, RepliesInv, ReplyCorrect, connVars, histVars
<1>8. QED
  BY <1>3, <1>4, <1>6, <1>7 DEF IInv

LEMMA FreeRequestIInv ==
  ASSUME IInv, NEW t \in Task, FreeRequest(t)
  PROVE  IInv'
<1> USE DEF FreeRequest
<1>1. tpc[t] = "freeReq" /\ tpc' = [tpc EXCEPT ![t] = "done"]
  OBVIOUS
<1>2. treq[t] \in usedReq /\ usedReq \subseteq ReqCells
  BY <1>1 DEF IInv, RecordsAllocated, HoldsReq, TypeOK, PoolTypes
<1>3. TypeOK'
  BY <1>2 DEF IInv, TypeOK, ConnTypes, SockTypes, TaskTypes, PoolTypes, HistTypes,
              LoopStates, TaskStates, sockVars, histVars
<1>4. LoopInv'
  BY <1>1, TaskKeepsLoopInv DEF TaskStates, Inline
<1>5. \A u \in Task : /\ tpc'[u] \in HoldsReq <=> tpc[u] \in HoldsReq /\ u # t
                      /\ tpc'[u] \in HoldsResp <=> tpc[u] \in HoldsResp
                      /\ tpc'[u] \in Unanswered <=> tpc[u] \in Unanswered
                      /\ tpc'[u] \in {"lock", "write"} <=> tpc[u] \in {"lock", "write"}
                      /\ tpc'[u] \in {"idle", "read"} <=> tpc[u] \in {"idle", "read"}
                      /\ tpc[t] \in HoldsReq
  BY <1>1 DEF IInv, TypeOK, TaskTypes, HoldsReq, HoldsResp, Unanswered
<1>6. RecordsOwned' /\ RecordsAllocated' /\ RecordsTrue'
  BY <1>2, <1>5 DEF IInv, RecordsOwned, RecordsAllocated, RecordsTrue
<1>7. PendingExact' /\ RepliesInv' /\ ReplyCorrect'
  BY <1>5 DEF IInv, PendingExact, RepliesInv, ReplyCorrect, histVars
<1>8. QED
  BY <1>3, <1>4, <1>6, <1>7 DEF IInv

-----------------------------------------------------------------------------
\* The application's goroutines and the network touch the mutex and the socket.
LEMMA AppStepIInv ==
  ASSUME IInv, NEW c \in Conns, AppStep(c)
  PROVE  IInv'
<1> USE DEF AppStep, NotifyLock, NotifyWrite, AppClose, ConnectionLost
<1>1. UNCHANGED <<loop, seq, pending, taskVars, poolVars, histVars>>
  BY DEF connVars
<1>2. ConnTypes' /\ SockTypes'
  <2>1. ConnTypes'
    <3>1. UNCHANGED notes \/ (notes[c] < MaxNotes /\ notes' = [notes EXCEPT ![c] = @ + 1])
      BY DEF connVars
    <3>2. notes' \in [Conns -> 0 .. MaxNotes]
      <4>1. notes \in [Conns -> 0 .. MaxNotes]
        BY DEF IInv, TypeOK, ConnTypes
      <4>2. notes[c] < MaxNotes => notes[c] + 1 \in 0 .. MaxNotes
        BY <4>1, MaxReqAssumption
      <4>3. QED
        BY <3>1, <4>1, <4>2
    <3>3. sending' \in [Conns -> {"free", "task", "loop", "notify"}]
      BY DEF IInv, TypeOK, ConnTypes, connVars
    <3>4. QED
      BY <1>1, <3>2, <3>3 DEF IInv, TypeOK, ConnTypes
  <2>2. SockTypes'
    BY DEF IInv, TypeOK, SockTypes, Encode, EncodePanics, CloseSocket, sockVars
  <2>3. QED
    BY <2>1, <2>2
<1>3. TypeOK'
  BY <1>1, <1>2 DEF IInv, TypeOK, TaskTypes, PoolTypes, HistTypes, taskVars, poolVars, histVars
<1>4. LoopInv'
  BY <1>1 DEF IInv, LoopInv, Waiting, Current, taskVars
<1>5. RecordsOwned' /\ RecordsAllocated' /\ RecordsTrue'
  BY <1>1 DEF IInv, RecordsOwned, RecordsAllocated, RecordsTrue, taskVars, poolVars
<1>6. PendingExact' /\ RepliesInv' /\ ReplyCorrect'
  BY <1>1 DEF IInv, PendingExact, RepliesInv, ReplyCorrect, taskVars, histVars
<1>7. QED
  BY <1>3, <1>4, <1>5, <1>6 DEF IInv

LEMMA NextIInv == IInv /\ [Next]_vars => IInv'
<1> SUFFICES ASSUME IInv, [Next]_vars PROVE IInv'
  OBVIOUS
<1>1. CASE UNCHANGED vars
  BY <1>1 DEF vars, IInv, TypeOK, ConnTypes, SockTypes, TaskTypes, PoolTypes, HistTypes,
     LoopInv, Waiting, Current, RecordsOwned, RecordsAllocated, RecordsTrue, PendingExact,
     RepliesInv, ReplyCorrect, connVars, sockVars, taskVars, poolVars, histVars
<1>2. ASSUME NEW c \in Conns, LoopStep(c) PROVE IInv'
  BY <1>2, GetRequestIInv, ReadRequestHeaderIInv, ReadFailsIInv, DispatchIInv, LoopEndIInv
     DEF LoopStep, LoopProgress
<1>3. ASSUME NEW c \in Conns, AppStep(c) PROVE IInv'
  BY <1>3, AppStepIInv
<1>4. ASSUME NEW t \in Task, TaskStep(t) PROVE IInv'
  BY <1>4, HandlerReturnsIInv, PrepareResponseIInv, LockSendingIInv, WriteResponseIInv,
     FreeResponseIInv, FreeRequestIInv DEF TaskStep, TaskProgress
<1>5. QED
  BY <1>1, <1>2, <1>3, <1>4 DEF Next

\* Every reachable state satisfies the inductive invariant.
THEOREM Invariance == Spec => []IInv
BY InitIInv, NextIInv, PTL DEF Spec

\* The variables always hold values of their types.
THEOREM TypeCorrect == Spec => []TypeOK
<1>1. IInv => TypeOK
  BY DEF IInv
<1>2. QED
  BY Invariance, <1>1, PTL

\* Whatever is lost, closed, oversized or malformed, a peer gets at most one
\* reply to each request, under its own id: its own result, its own error, or {}
\* when the text of the error is empty.
THEOREM RepliesAreCorrect == Spec => []ReplyCorrect
<1>1. IInv => ReplyCorrect
  BY DEF IInv
<1>2. QED
  BY Invariance, <1>1, PTL

\* The pending map holds exactly the unanswered requests, with their ids.
THEOREM PendingIsExact == Spec => []PendingExact
<1>1. IInv => PendingExact
  BY DEF IInv
<1>2. QED
  BY Invariance, <1>1, PTL

\* The free lists never give two goroutines the same record.
THEOREM RecordsAreOwned == Spec => []RecordsOwned
<1>1. IInv => RecordsOwned
  BY DEF IInv
<1>2. QED
  BY Invariance, <1>1, PTL

-----------------------------------------------------------------------------
(* The server implements RpcPromise.                                       *)

LEMMA InitPromise == Init => Promise!Init
BY DEF Init, Promise!Init

LEMMA StepPromise == IInv /\ [Next]_vars => [Promise!Next]_(Promise!vars)
<1> SUFFICES ASSUME IInv, [Next]_vars PROVE [Promise!Next]_(Promise!vars)
  OBVIOUS
<1> USE DEF Promise!vars
<1>1. CASE UNCHANGED histVars
  BY <1>1 DEF histVars
<1>2. ASSUME NEW c \in Conns, NEW i \in Ids, NEW k \in Kinds, ReadRequestHeader(c, i, k)
      PROVE  Promise!Next
  <2>1. Waiting(c) \in Task /\ tpc[Waiting(c)] = "read"
    BY <1>2, WaitingIsTask DEF IInv, TypeOK, LoopInv, ReadRequestHeader
  <2>2. asked[Waiting(c)] = <<>>
    BY <2>1 DEF IInv, RepliesInv
  <2>3. Promise!Ask(Waiting(c), i)
    BY <1>2, <2>2 DEF ReadRequestHeader, Promise!Ask
  <2>4. QED
    BY <2>1, <2>3 DEF Promise!Next
<1>3. ASSUME NEW t \in Task, WriteResponse(t), replies' # replies
      PROVE  Promise!Next
  <2>1. /\ tpc[t] = "write" /\ asked' = asked
        /\ replies' = [replies EXCEPT ![t] =
                         Append(@, ReplyFor(t[1], tresp[t], outcome[t]))]
    BY <1>3 DEF WriteResponse
  <2>2. replies[t] = <<>> /\ asked[t] # <<>>
        /\ Said(outcome[t]) \in Bodies
        /\ ReplyFor(t[1], tresp[t], outcome[t]) =
             [id |-> asked[t][1], body |-> Said(outcome[t])]
    BY <2>1, WriteResponseFinds DEF IInv, RepliesInv, Unanswered
  <2>3. Promise!Answer(t, Said(outcome[t]))
    BY <2>1, <2>2 DEF Promise!Answer
  <2>4. QED
    BY <2>1, <2>2, <2>3 DEF Promise!Next, Promise!Bodies, Bodies
<1>4. ASSUME NEW t \in Task, WriteResponse(t) PROVE UNCHANGED asked
  BY <1>4 DEF WriteResponse
<1>5. ASSUME NEW c \in Conns, LoopProgress(c) \/ LoopLock(c) \/ ReadFails(c) \/ AppStep(c)
      PROVE  UNCHANGED histVars
  BY <1>5 DEF LoopProgress, LoopLock, ReadFails, AppStep, GetRequest, Dispatch, Terminate,
              LoopClose, NotifyLock, NotifyWrite, AppClose, ConnectionLost
<1>6. ASSUME NEW t \in Task, HandlerReturns(t) \/ PrepareResponse(t) \/ LockSending(t)
                             \/ FreeResponse(t) \/ FreeRequest(t)
      PROVE  UNCHANGED histVars
  BY <1>6 DEF HandlerReturns, PrepareResponse, LockSending, FreeResponse, FreeRequest
<1>7. CASE UNCHANGED vars
  BY <1>7 DEF vars, histVars
<1>8. QED
  BY <1>1, <1>2, <1>3, <1>4, <1>5, <1>6, <1>7
     DEF Next, LoopStep, TaskStep, TaskProgress, histVars

\* The detailed server implements the abstract promise of RpcPromise: every
\* step of a loop, a handler or the network asks, answers correctly, or changes
\* nothing the peers see.
THEOREM Implements == Spec => KeepsPromise
<1>1. Spec => Promise!Init /\ [][Promise!Next]_(Promise!vars)
  BY InitPromise, StepPromise, Invariance, PTL DEF Spec
<1>2. QED
  BY <1>1 DEF KeepsPromise, Promise!Spec
=============================================================================
