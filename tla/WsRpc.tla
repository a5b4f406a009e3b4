------------------------------- MODULE WsRpc --------------------------------
(***************************************************************************)
(* The wsrpc server: for every websocket connection the serve loop of      *)
(* Server.ServeCodec, the goroutine it starts for each request, and the    *)
(* goroutines of the application that push notifications or close the      *)
(* connection (src/wsrpc/server.go, codec.go, conn.go, rwc.go).            *)
(*                                                                         *)
(* Connections share the server's two free lists of Request and Response   *)
(* records; the goroutines of one connection share its codec (seq,         *)
(* pending), the mutex `sending` and the ReadWriteCloser (done channel,    *)
(* websocket).                                                             *)
(*                                                                         *)
(* Request n of connection c is the task <<c, n>>; the codec numbers the   *)
(* requests it reads 1, 2, ...  Task <<c, seq[c] + 1>> is the one whose    *)
(* record the serve loop holds while it waits for a message.               *)
(***************************************************************************)
EXTENDS Integers, Sequences

CONSTANTS
  Conns,             \* the connections
  MaxReq,            \* bound: requests a peer sends on one connection
  MaxNotes,          \* bound: notifications pushed on one connection
  ReqCells,          \* the Request records new(Request) can yield
  RespCells,         \* the Response records new(Response) can yield
  Ids,               \* the request ids peers use (JSON null is one of them)
  Kinds,             \* the sorts of request peers send, a subset of AllKinds
  Outcomes,          \* how handlers may return, a subset of AllOutcomes
  HasMissingMethod,  \* is onMissingMethod set?
  BigMessages,       \* may a message exceed the websocket's write buffer?
  AppCloses,         \* may the application call Conn.Close?
  NoCell             \* "no record"

(* A request, up to what the server does with it: does its method name a   *)
(* registered service method, has it params, do they decode.               *)
AllKinds == {"call", "badArgs", "callNoParams", "unknown", "unknownNoParams"}

(* How a call ends: with a result, with one that json cannot marshal, with *)
(* an error whose Error() is "", or with an error that has a text.         *)
AllOutcomes == {"result", "badResult", "emptyError", "error"}

ASSUME MaxReqAssumption == MaxReq \in Nat /\ MaxNotes \in Nat
ASSUME KindsAssumption  == Kinds \subseteq AllKinds /\ Outcomes \subseteq AllOutcomes
ASSUME FlagsAssumption  ==
  HasMissingMethod \in BOOLEAN /\ BigMessages \in BOOLEAN /\ AppCloses \in BOOLEAN
ASSUME CellAssumption   == NoCell \notin ReqCells \cup RespCells

Slot == 1 .. MaxReq + 1     \* the last one only ever waits for a message
Task == Conns \X Slot

VARIABLES
  loop,      \* loop[c]: where the serve loop of c is
  seq,       \* seq[c]: serverCodec.seq
  pending,   \* pending[c][n]: <<id>> while pending holds n, else <<>>
  sending,   \* sending[c]: who holds the mutex: a task, the loop, a Notify
  ws,        \* ws[c]: "up", or "down": closed, by whom does not matter
  werr,      \* werr[c]: the websocket has recorded a write error
  doneClosed,\* doneClosed[c]: ReadWriteCloser.done has been closed
  notes,     \* notes[c]: notifications pushed so far
  crashed,   \* a panic outside the serve loops has ended the process
  tpc,       \* tpc[t]: where the goroutine working for t is
  kind,      \* kind[t]: <<k>> once t has been read
  outcome,   \* outcome[t]: how the call or refusal of t ended ("result" until then)
  treq,      \* treq[t]: the Request record held for t
  tresp,     \* tresp[t]: the Response record held for t
  reqSeq,    \* reqSeq[r]: Request.Seq of record r
  resp,      \* resp[r]: Seq and Error of Response record r
  freeReq, freeResp,   \* the records in the free lists
  usedReq, usedResp,   \* the records ever allocated
  asked,     \* history: asked[t] is <<id>>, the id the peer sent with t
  replies    \* history: replies[t] lists what was delivered to the peer
             \* by the goroutine working for t

connVars == <<loop, seq, pending, sending, notes>>
sockVars == <<ws, werr, doneClosed>>
taskVars == <<tpc, kind, outcome, treq, tresp>>
poolVars == <<reqSeq, resp, freeReq, freeResp, usedReq, usedResp>>
histVars == <<asked, replies>>
vars == <<connVars, sockVars, taskVars, poolVars, histVars, crashed>>

LoopStates == {"get", "read", "dispatch", "wait", "terminate", "lock", "close",
               "done", "panic"}
TaskStates == {"idle", "read", "dispatch", "call", "prepare", "lock", "write",
               "freeResp", "freeReq", "done", "dead"}
(* The "error" of a JSON reply, or its "result": the handler's, or "void", *)
(* the placeholder invalidRequest.                                         *)
Bodies == {"result", "void", "error"}
Reply  == [id : Ids, body : Bodies]

ConnTypes ==
  /\ loop       \in [Conns -> LoopStates]
  /\ seq        \in [Conns -> 0 .. MaxReq]
  /\ pending    \in [Conns -> [Slot -> {<<>>} \cup {<<i>> : i \in Ids}]]
  /\ sending    \in [Conns -> {"free", "task", "loop", "notify"}]
  /\ notes      \in [Conns -> 0 .. MaxNotes]

SockTypes ==
  /\ ws         \in [Conns -> {"up", "down"}]
  /\ werr       \in [Conns -> BOOLEAN]
  /\ doneClosed \in [Conns -> BOOLEAN]
  /\ crashed    \in BOOLEAN

TaskTypes ==
  /\ tpc        \in [Task -> TaskStates]
  /\ kind       \in [Task -> {<<>>} \cup {<<k>> : k \in Kinds}]
  /\ outcome    \in [Task -> AllOutcomes]
  /\ treq       \in [Task -> ReqCells \cup {NoCell}]
  /\ tresp      \in [Task -> RespCells \cup {NoCell}]

PoolTypes ==
  /\ reqSeq     \in [ReqCells -> 0 .. MaxReq]
  /\ resp       \in [RespCells -> [seq : 0 .. MaxReq, err : BOOLEAN]]
  /\ freeReq  \subseteq ReqCells  /\ usedReq  \subseteq ReqCells
  /\ freeResp \subseteq RespCells /\ usedResp \subseteq RespCells

HistTypes ==
  /\ asked      \in [Task -> {<<>>} \cup {<<i>> : i \in Ids}]
  /\ replies    \in [Task -> {<<>>} \cup {<<r>> : r \in Reply}]

TypeOK == ConnTypes /\ SockTypes /\ TaskTypes /\ PoolTypes /\ HistTypes

Init ==
  /\ loop       = [c \in Conns |-> "get"]
  /\ seq        = [c \in Conns |-> 0]
  /\ pending    = [c \in Conns |-> [n \in Slot |-> <<>>]]
  /\ sending    = [c \in Conns |-> "free"]
  /\ notes      = [c \in Conns |-> 0]
  /\ ws         = [c \in Conns |-> "up"]
  /\ werr       = [c \in Conns |-> FALSE]
  /\ doneClosed = [c \in Conns |-> FALSE]
  /\ crashed    = FALSE
  /\ tpc        = [t \in Task |-> "idle"]
  /\ kind       = [t \in Task |-> <<>>]
  /\ outcome    = [t \in Task |-> "result"]
  /\ treq       = [t \in Task |-> NoCell]
  /\ tresp      = [t \in Task |-> NoCell]
  /\ reqSeq     = [r \in ReqCells |-> 0]
  /\ resp       = [r \in RespCells |-> [seq |-> 0, err |-> FALSE]]
  /\ freeReq = {} /\ usedReq = {} /\ freeResp = {} /\ usedResp = {}
  /\ asked      = [t \in Task |-> <<>>]
  /\ replies    = [t \in Task |-> <<>>]

(***************************************************************************)
(* The free lists.  A record comes from the list when it has one and from  *)
(* new otherwise.  Which record of the list is taken makes no difference,  *)
(* so the list is a set; new yields some record nobody has used.           *)
(***************************************************************************)
New(used, cells) ==
  IF cells \subseteq used THEN {} ELSE {CHOOSE r \in cells : r \notin used}

Obtainable(free, used, cells) == IF free = {} THEN New(used, cells) ELSE free

\* The record that was at the head of the list is no longer in it.
Unlink_missing(free, r) == free      \* fault: freeReq is not advanced
Unlink(free, r) == free \ {r}

\* *req = Request{}
ZeroRequest(old) == 0

\* *resp = Response{}
ZeroResponse_missing(old) == old     \* fault: a reused record is not reset
ZeroResponse(old) == [seq |-> 0, err |-> FALSE]

\* resp.Seq = req.Seq; resp.Error = errMsg.Error() when there is an error.  The
\* record's err says that this text is not "", which is all the codec looks at.
FillResponse_next(r, n, o) ==                \* fault: off by one
  [seq |-> n + 1, err |-> r.err \/ o = "error"]
FillResponse(r, n, o) == [seq |-> n, err |-> r.err \/ o = "error"]

-----------------------------------------------------------------------------
(***************************************************************************)
(* The socket.  Encode hands one JSON text to ReadWriteCloser.Write.       *)
(***************************************************************************)

\* ReadWriteCloser.Close.  A second close of the channel panics (ClosePanics).
CloseSocket(c) ==
  /\ ~doneClosed[c]
  /\ doneClosed' = [doneClosed EXCEPT ![c] = TRUE]
  /\ ws' = [ws EXCEPT ![c] = "down"]

ClosePanics(c) == doneClosed[c]

\* A write error is met inside Write only by a message larger than the
\* websocket's buffer, and only once: later NextWriter fails at the start.
WriteFailsMidway(c) == BigMessages /\ ws[c] = "down" /\ ~werr[c]

\* Marshalling comes first: when it fails nothing is written.
Encode(c, marshals, delivered) ==
  \/ /\ ~marshals /\ ~delivered
     /\ UNCHANGED sockVars
  \/ /\ marshals /\ ws[c] = "up" /\ delivered
     /\ UNCHANGED sockVars
  \/ /\ marshals /\ ws[c] = "down" /\ ~delivered  \* lost; Encode may return nil or not
     /\ \E e \in {werr[c], TRUE} : werr' = [werr EXCEPT ![c] = e]
     /\ UNCHANGED <<ws, doneClosed>>
  \/ /\ marshals /\ WriteFailsMidway(c) /\ ~delivered
     /\ werr' = [werr EXCEPT ![c] = TRUE]
     /\ CloseSocket(c)

EncodePanics(c) == WriteFailsMidway(c) /\ ClosePanics(c) /\ UNCHANGED sockVars

\* The peer goes away, the network fails, or ping closes the websocket.
ConnectionLost(c) ==
  /\ ~crashed /\ ws[c] = "up"
  /\ ws' = [ws EXCEPT ![c] = "down"]
  /\ UNCHANGED <<connVars, werr, doneClosed, taskVars, poolVars, histVars, crashed>>

-----------------------------------------------------------------------------
(***************************************************************************)
(* The serve loop.                                                         *)
(***************************************************************************)
Current(c) == <<c, seq[c]>>       \* the task of the last request read
Waiting(c) == <<c, seq[c] + 1>>   \* the task of the request to come

\* server.read, first half: getRequest
GetRequest(c) ==
  /\ ~crashed /\ loop[c] = "get"
  /\ \E r \in Obtainable(freeReq, usedReq, ReqCells) :
       /\ freeReq' = Unlink(freeReq, r)
       /\ usedReq' = usedReq \cup {r}
       /\ reqSeq'  = [reqSeq EXCEPT ![r] = ZeroRequest(@)]
       /\ treq'    = [treq EXCEPT ![Waiting(c)] = r]
  /\ tpc'  = [tpc EXCEPT ![Waiting(c)] = "read"]
  /\ loop' = [loop EXCEPT ![c] = "read"]
  /\ UNCHANGED <<seq, pending, sending, notes, sockVars, kind, outcome, tresp,
                 resp, freeResp, usedResp, histVars, crashed>>

\* server.read, second half: ReadRequestHeader gets a message.  What a dead
\* connection's decoder has buffered is still read.
ReadRequestHeader(c, i, k) ==
  LET t == Waiting(c) IN
  /\ ~crashed /\ loop[c] = "read" /\ seq[c] < MaxReq
  /\ seq'     = [seq EXCEPT ![c] = @ + 1]
  /\ pending' = [pending EXCEPT ![c][seq'[c]] = <<i>>]
  /\ reqSeq'  = [reqSeq EXCEPT ![treq[t]] = seq'[c]]
  /\ kind'    = [kind EXCEPT ![t] = <<k>>]
  /\ asked'   = [asked EXCEPT ![t] = <<i>>]
  /\ tpc'     = [tpc EXCEPT ![t] = "dispatch"]
  /\ loop'    = [loop EXCEPT ![c] = "dispatch"]
  /\ UNCHANGED <<sending, notes, sockVars, outcome, treq, tresp, resp, freeReq,
                 freeResp, usedReq, usedResp, replies, crashed>>

\* ReadRequestHeader fails: the connection is down, or the peer sent what is
\* not a JSON request.  The loop breaks and the record is not freed.
ReadFails(c) ==
  /\ ~crashed /\ loop[c] = "read"
  /\ tpc'  = [tpc EXCEPT ![Waiting(c)] = "dead"]
  /\ loop' = [loop EXCEPT ![c] = "terminate"]
  /\ UNCHANGED <<seq, pending, sending, notes, sockVars, kind, outcome, treq,
                 tresp, poolVars, histVars, crashed>>

Unknown(k)   == k \in {"unknown", "unknownNoParams"}
NoParams(k)  == k \in {"callNoParams", "unknownNoParams"}

\* The loop answers the request itself: getService fails and no
\* onMissingMethod is set, or getArgs fails.
Refused(k) == (Unknown(k) /\ ~HasMissingMethod) \/ k = "badArgs"

\* GetParams dereferences the nil Params, before ReadRequestBody looks at it.
ParamsPanic(k) == NoParams(k) /\ ~Refused(k)

\* getService and getArgs: the request goes to a handler goroutine, or is
\* refused, or kills the serve goroutine (net/http recovers the panic).
Dispatch(c) ==
  LET t == Current(c)
      k == kind[t][1]
  IN
  /\ ~crashed /\ loop[c] = "dispatch"
  /\ \/ /\ ParamsPanic(k)
        /\ loop' = [loop EXCEPT ![c] = "panic"]
        /\ UNCHANGED <<tpc, outcome>>
     \/ /\ Refused(k)
        /\ loop' = [loop EXCEPT ![c] = "wait"]
        /\ tpc'  = [tpc EXCEPT ![t] = "prepare"]
        /\ outcome' = [outcome EXCEPT ![t] = "error"]
     \/ /\ ~Refused(k) /\ ~ParamsPanic(k)
        /\ loop' = [loop EXCEPT ![c] = "get"]
        /\ tpc'  = [tpc EXCEPT ![t] = "call"]
        /\ UNCHANGED outcome
  /\ UNCHANGED <<seq, pending, sending, notes, sockVars, kind, treq, tresp,
                 poolVars, histVars, crashed>>

\* conn.ternimating: the close handlers run (module WsConn has them).
Terminate(c) ==
  /\ ~crashed /\ loop[c] = "terminate"
  /\ loop' = [loop EXCEPT ![c] = "lock"]
  /\ UNCHANGED <<seq, pending, sending, notes, sockVars, taskVars, poolVars,
                 histVars, crashed>>

LoopLock(c) ==
  /\ ~crashed /\ loop[c] = "lock" /\ sending[c] = "free"
  /\ sending' = [sending EXCEPT ![c] = "loop"]
  /\ loop'    = [loop EXCEPT ![c] = "close"]
  /\ UNCHANGED <<seq, pending, notes, sockVars, taskVars, poolVars, histVars, crashed>>

\* codec.Close and sending.Unlock; a panic in Close leaves the mutex locked.
LoopClose_keepsMutex(c) ==      \* fault: no Unlock after Close
  /\ ~crashed /\ loop[c] = "close"
  /\ \/ CloseSocket(c) /\ loop' = [loop EXCEPT ![c] = "done"] /\ UNCHANGED werr
     \/ ClosePanics(c) /\ loop' = [loop EXCEPT ![c] = "panic"] /\ UNCHANGED sockVars
  /\ UNCHANGED <<sending, seq, pending, notes, taskVars, poolVars, histVars, crashed>>

LoopClose(c) ==
  /\ ~crashed /\ loop[c] = "close"
  /\ \/ /\ CloseSocket(c)
        /\ sending' = [sending EXCEPT ![c] = "free"]
        /\ loop'    = [loop EXCEPT ![c] = "done"]
        /\ UNCHANGED werr
     \/ /\ ClosePanics(c)
        /\ loop' = [loop EXCEPT ![c] = "panic"]
        /\ UNCHANGED <<sending, sockVars>>
  /\ UNCHANGED <<seq, pending, notes, taskVars, poolVars, histVars, crashed>>

-----------------------------------------------------------------------------
(***************************************************************************)
(* The goroutine working for a task: a handler goroutine, or the serve     *)
(* loop itself when it refuses a request and waits for the reply to go out.*)
(***************************************************************************)
Inline(t) == loop[t[1]] = "wait" /\ t = Current(t[1])

\* service.call, onWrap or onMissingMethod returns.
HandlerReturns_frees(t) ==      \* fault: freeRequest before sendResponse
  /\ ~crashed /\ tpc[t] = "call"
  /\ tpc' = [tpc EXCEPT ![t] = "prepare"]
  /\ \E o \in Outcomes : outcome' = [outcome EXCEPT ![t] = o]
  /\ freeReq' = freeReq \cup {treq[t]}
  /\ UNCHANGED <<connVars, sockVars, kind, treq, tresp, reqSeq, resp, freeResp,
                 usedReq, usedResp, histVars, crashed>>

HandlerReturns(t) ==
  /\ ~crashed /\ tpc[t] = "call"
  /\ tpc' = [tpc EXCEPT ![t] = "prepare"]
  /\ \E o \in Outcomes : outcome' = [outcome EXCEPT ![t] = o]
  /\ UNCHANGED <<connVars, sockVars, kind, treq, tresp, poolVars, histVars, crashed>>

\* sendResponse up to sending.Lock: getResponse, then the header fields.
PrepareResponse(t) ==
  /\ ~crashed /\ tpc[t] = "prepare"
  /\ \E r \in Obtainable(freeResp, usedResp, RespCells) :
       /\ freeResp' = Unlink(freeResp, r)
       /\ usedResp' = usedResp \cup {r}
       /\ tresp'    = [tresp EXCEPT ![t] = r]
       /\ resp'     = [resp EXCEPT ![r] =
                         FillResponse(ZeroResponse(@), reqSeq[treq[t]], outcome[t])]
  /\ tpc' = [tpc EXCEPT ![t] = "lock"]
  /\ UNCHANGED <<connVars, sockVars, kind, outcome, treq, reqSeq, freeReq,
                 usedReq, histVars, crashed>>

LockSending(t) ==
  /\ ~crashed /\ tpc[t] = "lock" /\ sending[t[1]] = "free"
  /\ sending' = [sending EXCEPT ![t[1]] = "task"]
  /\ tpc'     = [tpc EXCEPT ![t] = "write"]
  /\ UNCHANGED <<loop, seq, pending, notes, sockVars, kind, outcome, treq, tresp,
                 poolVars, histVars, crashed>>

\* serverResponse: Error when the record has a text, else the reply it was given,
\* for which sendResponse puts invalidRequest after any error.
BodyFor(r, o) ==
  IF resp[r].err THEN "error"
  ELSE IF o \in {"emptyError", "error"} THEN "void" ELSE "result"

\* fault: one id for every reply, as if the test for an absent id were inverted
ReplyFor_null(c, r, o) == [id |-> CHOOSE i \in Ids : TRUE, body |-> BodyFor(r, o)]
\* The reply codec.WriteResponse builds: the id saved for the sequence number.
ReplyFor(c, r, o) == [id |-> pending[c][resp[r].seq][1], body |-> BodyFor(r, o)]

\* A result may hold what json refuses; texts and the placeholder it takes.
Marshals(r, o) == BodyFor(r, o) = "result" => o # "badResult"

Forget_missing(c, n) == UNCHANGED pending    \* fault: no delete
Forget(c, n) == pending' = [pending EXCEPT ![c][n] = <<>>]

\* sending.Unlock
Unlock_missing(c) == UNCHANGED sending       \* fault: an early return
Unlock(c) == sending' = [sending EXCEPT ![c] = "free"]

\* codec.WriteResponse, whose error sendResponse drops, and sending.Unlock.
WriteResponse(t) ==
  LET c == t[1]
      r == tresp[t]
      n == resp[r].seq
  IN
  /\ ~crashed /\ tpc[t] = "write"
  /\ \/ /\ pending[c][n] = <<>>      \* "invalid sequence number in response"
        /\ tpc' = [tpc EXCEPT ![t] = "freeResp"]
        /\ Unlock(c)
        /\ UNCHANGED <<pending, sockVars, loop, replies, crashed>>
     \/ /\ pending[c][n] # <<>>
        /\ Forget(c, n)
        /\ \E delivered \in BOOLEAN :
             /\ Encode(c, Marshals(r, outcome[t]), delivered)
             /\ replies' = IF delivered
                           THEN [replies EXCEPT ![t] = Append(@, ReplyFor(c, r, outcome[t]))]
                           ELSE replies
        /\ tpc' = [tpc EXCEPT ![t] = "freeResp"]
        /\ Unlock(c)
        /\ UNCHANGED <<loop, crashed>>
     \/ /\ pending[c][n] # <<>>
        /\ Forget(c, n)
        /\ Marshals(r, outcome[t]) /\ EncodePanics(c)
        /\ tpc' = [tpc EXCEPT ![t] = "dead"]
        /\ loop' = IF Inline(t) THEN [loop EXCEPT ![c] = "panic"] ELSE loop
        /\ crashed' = ~Inline(t)
        /\ UNCHANGED <<sending, replies>>
  /\ UNCHANGED <<seq, notes, kind, outcome, treq, tresp, poolVars, asked>>

FreeResponse(t) ==
  /\ ~crashed /\ tpc[t] = "freeResp"
  /\ freeResp' = freeResp \cup {tresp[t]}
  /\ tpc'      = [tpc EXCEPT ![t] = "freeReq"]
  /\ UNCHANGED <<connVars, sockVars, kind, outcome, treq, tresp, reqSeq, resp,
                 freeReq, usedReq, usedResp, histVars, crashed>>

\* freeRequest; the serve loop goes on to the next request.
FreeRequest(t) ==
  /\ ~crashed /\ tpc[t] = "freeReq"
  /\ freeReq' = freeReq \cup {treq[t]}
  /\ tpc'     = [tpc EXCEPT ![t] = "done"]
  /\ loop'    = IF Inline(t) THEN [loop EXCEPT ![t[1]] = "get"] ELSE loop
  /\ UNCHANGED <<seq, pending, sending, notes, sockVars, kind, outcome, treq,
                 tresp, reqSeq, resp, freeResp, usedReq, usedResp, histVars, crashed>>

-----------------------------------------------------------------------------
(***************************************************************************)
(* Goroutines of the application.                                          *)
(***************************************************************************)

\* Conn.Notify or Conn.NotifyEx gets the mutex.
NotifyLock(c) ==
  /\ ~crashed /\ notes[c] < MaxNotes /\ sending[c] = "free"
  /\ notes'   = [notes EXCEPT ![c] = @ + 1]
  /\ sending' = [sending EXCEPT ![c] = "notify"]
  /\ UNCHANGED <<loop, seq, pending, sockVars, taskVars, poolVars, histVars, crashed>>

\* It writes and returns; the deferred Unlock runs when it panics, too.
NotifyWrite(c) ==
  /\ ~crashed /\ sending[c] = "notify"
  /\ sending' = [sending EXCEPT ![c] = "free"]
  /\ \/ /\ \E marshals, delivered \in BOOLEAN : Encode(c, marshals, delivered)
        /\ UNCHANGED crashed
     \/ EncodePanics(c) /\ crashed' = TRUE
  /\ UNCHANGED <<loop, seq, pending, notes, taskVars, poolVars, histVars>>

\* Conn.Close: no mutex is taken.
AppClose(c) ==
  /\ ~crashed /\ AppCloses
  /\ \/ CloseSocket(c) /\ UNCHANGED <<werr, crashed>>
     \/ ClosePanics(c) /\ crashed' = TRUE /\ UNCHANGED sockVars
  /\ UNCHANGED <<connVars, taskVars, poolVars, histVars>>

-----------------------------------------------------------------------------
LoopProgress(c) ==
  \/ GetRequest(c) \/ Dispatch(c) \/ Terminate(c) \/ LoopClose(c)
  \/ ws[c] = "down" /\ ReadFails(c)

LoopStep(c) ==
  \/ LoopProgress(c) \/ LoopLock(c) \/ ReadFails(c)
  \/ \E i \in Ids, k \in Kinds : ReadRequestHeader(c, i, k)

TaskProgress(t) ==
  \/ HandlerReturns(t) \/ PrepareResponse(t)
  \/ WriteResponse(t) \/ FreeResponse(t) \/ FreeRequest(t)

TaskStep(t) == TaskProgress(t) \/ LockSending(t)

AppStep(c) == NotifyLock(c) \/ NotifyWrite(c) \/ AppClose(c) \/ ConnectionLost(c)

Next ==
  \/ \E c \in Conns : LoopStep(c) \/ AppStep(c)
  \/ \E t \in Task : TaskStep(t)

Spec == Init /\ [][Next]_vars

(***************************************************************************)
(* Goroutines are scheduled; handlers return; sync.Mutex hands itself to   *)
(* a waiter that has waited for a millisecond, which is strong fairness;   *)
(* a read on a dead connection fails.  Nobody has to send, notify, close   *)
(* or lose the connection.                                                 *)
(***************************************************************************)
Fairness ==
  /\ \A c \in Conns :
       WF_vars(LoopProgress(c)) /\ SF_vars(LoopLock(c)) /\ WF_vars(NotifyWrite(c))
  /\ \A t \in Task : WF_vars(TaskProgress(t)) /\ SF_vars(LockSending(t))

FairSpec == Spec /\ Fairness

\* The server keeps what the abstract specification promises.
Promise == INSTANCE RpcPromise WITH question <- asked, answer <- replies
KeepsPromise == Promise!Spec

-----------------------------------------------------------------------------
(***************************************************************************)
(* Properties.                                                             *)
(***************************************************************************)
Unanswered == {"dispatch", "call", "prepare", "lock", "write"}
HoldsReq   == Unanswered \cup {"read", "freeResp", "freeReq"}
HoldsResp  == {"lock", "write", "freeResp"}

\* What the reply to a call says.  An error without a text is no error to the
\* codec: the peer gets the placeholder as if it were a result.
Said(o) ==
  IF o = "error" THEN "error" ELSE IF o = "emptyError" THEN "void" ELSE "result"

\* A peer gets at most one reply to each request, under the id it sent with
\* that request: the call's result when it succeeded, an error when it failed
\* with a text, and the result {} when it failed with an empty text; in whatever
\* order handlers finish and however records are reused by the requests of this
\* and of other connections.  No reply carries a result json cannot marshal
\* (server.go sendResponse, codec.go WriteResponse).
ReplyCorrect == \A t \in Task :
  replies[t] # <<>> =>
    /\ replies[t] = <<[id |-> asked[t][1], body |-> Said(outcome[t])]>>
    /\ outcome[t] # "badResult"

\* The pending map holds exactly the requests read and not yet answered, each
\* with its own id: no answer fails with "invalid sequence number" and no
\* entry is left behind (codec.go ReadRequestHeader, WriteResponse).
PendingExact == \A t \in Task :
  pending[t[1]][t[2]] = IF tpc[t] \in Unanswered THEN asked[t] ELSE <<>>

\* No two goroutines hold the same Request or Response record, and none holds
\* a record the free lists would give to another (server.go getRequest,
\* freeRequest, getResponse, freeResponse).  (A writer that panicked keeps
\* its records for good.)
RecordsOwned == \A t, u \in Task :
  /\ tpc[t] \in HoldsReq =>
       /\ treq[t] \notin freeReq
       /\ tpc[u] \in HoldsReq /\ treq[u] = treq[t] => u = t
  /\ tpc[t] \in HoldsResp =>
       /\ tresp[t] \notin freeResp
       /\ tpc[u] \in HoldsResp /\ tresp[u] = tresp[t] => u = t

-----------------------------------------------------------------------------
(***************************************************************************)
(* Why: the inductive invariant behind ReplyCorrect.                       *)
(***************************************************************************)

\* The serve loop and the tasks of its connection agree on how far it is.
LoopInv ==
  /\ \A t \in Task :
       /\ t[2] > seq[t[1]] + 1 => tpc[t] = "idle"
       /\ t[2] = seq[t[1]] + 1 => tpc[t] \in {"idle", "read", "dead"}
       /\ t[2] <= seq[t[1]]    => tpc[t] \notin {"idle", "read"}
  /\ \A c \in Conns :
       /\ loop[c] = "read" => tpc[Waiting(c)] = "read"
       /\ loop[c] \in {"get", "dispatch", "wait"} => tpc[Waiting(c)] = "idle"
       /\ loop[c] = "dispatch" => seq[c] > 0 /\ tpc[Current(c)] = "dispatch"
       /\ loop[c] = "wait" => seq[c] > 0

\* A free record has been allocated, and a held record has too.
RecordsAllocated ==
  /\ freeReq \subseteq usedReq /\ freeResp \subseteq usedResp
  /\ \A t \in Task : tpc[t] \in HoldsReq  => treq[t] \in usedReq
  /\ \A t \in Task : tpc[t] \in HoldsResp => tresp[t] \in usedResp

\* A held record says what its holder needs.
RecordsTrue == \A t \in Task :
  /\ tpc[t] \in Unanswered => reqSeq[treq[t]] = t[2]
  /\ tpc[t] \in {"lock", "write"} =>
       resp[tresp[t]] = [seq |-> t[2], err |-> outcome[t] = "error"]

\* Until its reply is written a task has no reply.
RepliesInv == \A t \in Task :
  /\ tpc[t] \in {"idle", "read"} => asked[t] = <<>>
  /\ tpc[t] \in Unanswered \cup {"idle", "read"} => replies[t] = <<>>
  /\ tpc[t] \in Unanswered => asked[t] # <<>>

IInv ==
  /\ TypeOK /\ LoopInv
  /\ RecordsOwned /\ RecordsAllocated /\ RecordsTrue
  /\ PendingExact /\ RepliesInv /\ ReplyCorrect

-----------------------------------------------------------------------------
\* Every request whose header was read is answered while its connection stays
\* up and the process lives: no handler, refusal or notification is left
\* waiting for the mutex (server.go:510, "send a response if we actually
\* managed to read a header").
HeaderAnswered == \A t \in Task :
  tpc[t] = "dispatch" ~> replies[t] # <<>> \/ ws[t[1]] = "down" \/ crashed

\* The same of the requests that come with params and whose result can be
\* marshalled: of another, WriteResponse has forgotten the id when json fails,
\* and sendResponse drops its error.
Answered == \A t \in Task :
  tpc[t] = "dispatch" /\ ~ParamsPanic(kind[t][1])
    ~> replies[t] # <<>> \/ outcome[t] = "badResult" \/ ws[t[1]] = "down" \/ crashed

\* The serve loop of a connection that has gone down gets through the close
\* handlers, closes the codec and leaves the mutex free, unless someone closed
\* the ReadWriteCloser before it, or a request without params killed it.
ServeLoopEnds == \A c \in Conns :
  ws[c] = "down" ~> \/ loop[c] = "done" /\ sending[c] = "free"
                    \/ loop[c] # "done" /\ doneClosed[c]
                    \/ loop[c] = "panic" \/ crashed

\* A connection that goes down takes only its own goroutines with it: Close is
\* never called twice on a ReadWriteCloser by a goroutine nobody recovers
\* (server.go:650, "The server calls Close when finished with the connection").
ProcessSurvives == ~crashed
=============================================================================
