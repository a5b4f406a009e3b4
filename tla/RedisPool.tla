------------------------------ MODULE RedisPool -----------------------------
(***************************************************************************)
(* redis.Pool and the package's functions on the default pool (src/redis:  *)
(* pool.go, redis.go).  A call takes a connection of redigo's pool, which  *)
(* waits when MaxActive are in use, runs its commands and closes it.  The  *)
(* server and redigo are external: SCAN walks the keys in batches and      *)
(* returns each key that is there throughout; MULTI ... EXEC is one step.  *)
(* The data is the set of keys; the pub/sub client is RedisPubSub.         *)
(***************************************************************************)
EXTENDS Integers, FiniteSets

CONSTANTS
  Clients,      \* goroutines that call the package
  KeyCount,     \* the keys are 1..KeyCount, in the order SCAN walks them
  MaxActive,    \* Config.MaxActive
  MaxOps        \* bound: calls

ASSUME PoolAssumption == KeyCount \in Nat /\ MaxActive \in Nat \ {0} /\ MaxOps \in Nat
ASSUME ClientsAssumption == IsFiniteSet(Clients)

VARIABLES
  rpReady,    \* defaultPool: nil, made (Init is running), ready, failed
  rpStore,    \* the keys the server has
  rpCall,     \* rpCall[c]: the call of c: op, argument, step, cursor, keys found
  rpSince,    \* rpSince[c]: the keys there ever since c's call took its connection
  rpLeaked,   \* connections that are never closed
  rpSub,      \* the connection of the pub/sub client: none, waits, holds, broken
  rpOps       \* calls so far

poolVars == <<rpReady, rpStore, rpCall, rpSince, rpLeaked, rpSub, rpOps>>

Keys == 1..KeyCount
Ops == {"read", "set", "del", "bulkHMSet", "scanDels", "scanHGets"}
NoCall == [op |-> "none", key |-> 1, step |-> "idle", iter |-> 0, keys |-> {}]

PoolTypeOK ==
  /\ rpReady \in {"nil", "made", "ready", "failed"}
  /\ rpStore \subseteq Keys /\ rpLeaked \in 0..MaxActive
  /\ rpSub \in {"none", "waits", "holds", "broken"} /\ rpOps \in 0..MaxOps
  /\ \A c \in Clients :
       /\ rpCall[c] \in [op : Ops \cup {"none", "failed"}, key : Keys \cup {1}, step : {"idle", "wait", "do", "exec"},
                         iter : 0..KeyCount, keys : SUBSET Keys]
       /\ rpSince[c] \subseteq Keys

PoolInit ==
  /\ rpReady = "nil" /\ rpStore \in SUBSET Keys
  /\ rpCall = [c \in Clients |-> NoCall] /\ rpSince = [c \in Clients |-> {}]
  /\ rpLeaked = 0 /\ rpSub = "none" /\ rpOps = 0

Commanding == {c \in Clients : rpCall[c].step \in {"do", "exec"}}
InUse == rpLeaked + (IF rpSub = "holds" THEN 1 ELSE 0) + Cardinality(Commanding)

\* Init: the default pool is set first, and the connection of its first check
\* (Conn().Err()) is never closed, unless there is none and the check fails.
InitPool ==
  /\ rpReady = "nil"
  /\ \/ rpReady' = "made" /\ rpLeaked' = 1
     \/ rpReady' = "failed" /\ UNCHANGED rpLeaked
  /\ UNCHANGED <<rpStore, rpCall, rpSince, rpSub, rpOps>>

\* A script may fail: loadScript waits for a second connection, and keeps it when
\* Load fails.
ScriptFails ==
  /\ rpReady = "made" /\ rpSub = "none" /\ rpReady' = "failed"
  /\ \/ UNCHANGED rpLeaked
     \/ InUse < MaxActive /\ rpLeaked' = rpLeaked + 1
  /\ UNCHANGED <<rpStore, rpCall, rpSince, rpSub, rpOps>>

\* Init returns, or with WithPubSub it makes the client, which waits for a
\* connection of its own.
InitEnds ==
  /\ rpReady = "made" /\ rpSub # "waits"
  /\ \/ rpReady' = "ready" /\ UNCHANGED rpSub
     \/ rpSub = "none" /\ rpSub' = "waits" /\ UNCHANGED rpReady
  /\ UNCHANGED <<rpStore, rpCall, rpSince, rpLeaked, rpOps>>

\* The client's connection: psc.Conn = pool.Conn(), which may not be dialled, and
\* psc.Close() before the next one when a receive failed (reSubscribe).
SubGets ==
  /\ rpSub = "waits" /\ InUse < MaxActive /\ rpSub' \in {"holds", "broken"}
  /\ UNCHANGED <<rpReady, rpStore, rpCall, rpSince, rpLeaked, rpOps>>

SubReconnects ==
  /\ rpSub \in {"holds", "broken"} /\ rpReady = "ready" /\ rpSub' = "waits"
  /\ UNCHANGED <<rpReady, rpStore, rpCall, rpSince, rpLeaked, rpOps>>

\* A call of the package: Set, GetSet, SetNX, SetEX, HSet, HIncrBy, HMSet, SAdd,
\* SRem, SendScript (set), Get, HGet, HGetAll, Smembers (read), Dels (del).
Call(c, op, key) ==
  /\ rpReady # "nil" /\ rpCall[c].step = "idle" /\ rpOps < MaxOps
  /\ rpOps' = rpOps + 1
  /\ rpCall' = [rpCall EXCEPT ![c] = [NoCall EXCEPT !.op = op, !.key = key, !.step = "wait"]]
  /\ UNCHANGED <<rpReady, rpStore, rpSince, rpLeaked, rpSub>>

\* pool.Get: a connection, or a wait for one.
GetConn(c) ==
  /\ rpCall[c].step = "wait" /\ InUse < MaxActive
  /\ rpCall' = [rpCall EXCEPT ![c].step = "do"]
  /\ rpSince' = [rpSince EXCEPT ![c] = rpStore]
  /\ UNCHANGED <<rpReady, rpStore, rpLeaked, rpSub, rpOps>>

\* What the server has after a change of it, and what was there all along.
Store(new) ==
  /\ rpStore' = new
  /\ rpSince' = [c \in Clients |-> rpSince[c] \cap new]

Closes_not(c) == FALSE     \* fault: no conn.Close on the way out
Closes(c) == TRUE

\* The call returns, with an error or not, and its deferred Close gives the
\* connection back.
Return(c, result) ==
  /\ rpCall' = [rpCall EXCEPT ![c] = [NoCall EXCEPT !.op = result]]
  /\ rpLeaked' = IF Closes(c) THEN rpLeaked ELSE rpLeaked + 1

\* One command is done, or it fails, done or not.  BulkHMSet sends its HMSETs and
\* an EXEC with no MULTI: the hashes are written one by one, and it fails.
WriteCommand(c) ==
  /\ rpCall[c].op \in {"set", "bulkHMSet"}
  /\ Store(rpStore \cup {rpCall[c].key}) \/ UNCHANGED <<rpStore, rpSince>>

DelCommand(c) ==
  /\ rpCall[c].op = "del"
  /\ Store(rpStore \ {rpCall[c].key}) \/ UNCHANGED <<rpStore, rpSince>>

ReadCommand(c) == rpCall[c].op = "read" /\ UNCHANGED <<rpStore, rpSince>>

Command(c) ==
  /\ rpCall[c].step = "do"
  /\ WriteCommand(c) \/ DelCommand(c) \/ ReadCommand(c)
  /\ Return(c, "none")
  /\ UNCHANGED <<rpReady, rpSub, rpOps>>

Found_last(keys, batch) == batch     \* fault: keys = k
Found(keys, batch) == keys \cup batch

\* SCAN iter MATCH key, over the next batch; iter 0 is the end.
ScanBatch(c) ==
  /\ rpCall[c].step = "do" /\ rpCall[c].op \in {"scanDels", "scanHGets"}
  /\ \E next \in (rpCall[c].iter + 1)..KeyCount :
       rpCall' = [rpCall EXCEPT
         ![c].iter = IF next = KeyCount THEN 0 ELSE next,
         ![c].keys = Found(@, {k \in rpStore : rpCall[c].iter < k /\ k <= next}),
         ![c].step = IF next = KeyCount THEN "exec" ELSE "do"]
  /\ UNCHANGED <<rpReady, rpStore, rpSince, rpLeaked, rpSub, rpOps>>

\* MULTI, a DEL or an HGETALL of each key, EXEC.
ExecKeys(c) ==
  /\ rpCall[c].step = "exec"
  /\ IF rpCall[c].op = "scanDels" THEN Store(rpStore \ rpCall[c].keys)
     ELSE UNCHANGED <<rpStore, rpSince>>
  /\ Return(c, "none")
  /\ UNCHANGED <<rpReady, rpSub, rpOps>>

\* SCAN or EXEC failed: the error is returned and nothing was deleted.
ScanFails(c) ==
  /\ rpCall[c].step \in {"do", "exec"} /\ rpCall[c].op \in {"scanDels", "scanHGets"}
  /\ Return(c, "failed")
  /\ UNCHANGED <<rpReady, rpStore, rpSince, rpSub, rpOps>>

CallStep(c) == GetConn(c) \/ Command(c) \/ ScanBatch(c) \/ ExecKeys(c) \/ ScanFails(c)

PoolNext ==
  \/ InitPool \/ ScriptFails \/ InitEnds \/ SubGets \/ SubReconnects
  \/ \E c \in Clients : CallStep(c) \/ \E op \in Ops, key \in Keys : Call(c, op, key)

\* The read and write timeouts end every command; a connection that comes free is
\* given to the waiting calls in turn.
PoolFairness == \A c \in Clients : WF_poolVars(CallStep(c)) /\ SF_poolVars(GetConn(c))

PoolSpec == PoolInit /\ [][PoolNext]_poolVars /\ PoolFairness

(***************************************************************************)
(* ScanDels that runs to its EXEC deletes every key that was there from    *)
(* its first SCAN on, in whatever batches the cursor returned them and     *)
(* whatever other clients set and delete meanwhile (pool.go:420-439).      *)
(***************************************************************************)
ScanDelsAll == [][\A c \in Clients :
  (rpCall[c].op = "scanDels" /\ rpCall'[c].op = "none") =>
    rpStore' \cap rpSince[c] = {}]_poolVars

(***************************************************************************)
(* Liveness: once Init is done, a call that waits for a connection gets one *)
(* and returns, for every return path closes its connection.  Init keeps   *)
(* one of the MaxActive for ever (redis.go:99) and the pub/sub client one  *)
(* more (redis.go:110-115, pubsub.go:32); without one more than these      *)
(* every call waits.                                                       *)
(***************************************************************************)
KeptConns == IF rpSub = "none" THEN 1 ELSE 2

CallsReturn == \A c \in Clients :
  []<>(rpReady = "ready" /\ MaxActive > KeptConns => rpCall[c].step = "idle")
=============================================================================
