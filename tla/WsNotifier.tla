----------------------------- MODULE WsNotifier -----------------------------
(***************************************************************************)
(* Notifiers on one wsrpc connection (src/wsrpc/notifier.go): each has a   *)
(* buffered channel, a goroutine that writes what it receives, and a Close *)
(* it registers as a close handler of the connection.                      *)
(*                                                                         *)
(* Close works under Notifier.mux; Notify, Clean and the loop read isopen  *)
(* without it.  What a write through Conn.Notify meets is module WsRpc's   *)
(* Encode, here one variable: the wire.                                    *)
(***************************************************************************)
EXTENDS WsConn, Pipeline

CONSTANTS
  Notifiers,  \* the close handlers that are the Close of a notifier
  MaxMsgs,    \* bound: calls of Notify and NotifyArr
  Cap,        \* capacity of the channel (1e3 in the code)
  AppCloses,  \* may the application call Notifier.Close itself?
  Unfit       \* the notifications whose data json cannot marshal

ASSUME NotifiersAssumption == Notifiers \subseteq Handlers
ASSUME CapAssumption == Cap \in Nat \ {0}
ASSUME MaxMsgsAssumption == MaxMsgs \in Nat /\ Unfit \subseteq 1 .. MaxMsgs

Msgs == 1 .. MaxMsgs    \* the notifications, in the order the calls begin
None == 0               \* no message

VARIABLES
  chan,      \* chan[n]: what the channel buffers
  chClosed,  \* chan n has been closed
  isopen,    \* Notifier.isopen
  closing,   \* closing[n]: who holds mux between close and isopen = false:
             \* nobody, the walk over the close handlers, or somebody else
  loop,      \* where the loop goroutine of n is
  hand,      \* hand[n]: the message it has received and not yet written
  call,      \* call[m]: how far the Notify of m is
  target,    \* target[m]: the notifier it was called on
  cleaning,  \* cleaning[n]: l of the Clean under way, 0 when there is none
  cleaned,   \* Clean has been called (bound: once on each notifier)
  accepted,  \* history: the messages the channel took
  handed,    \* history: the messages given to Conn.Notify, written or lost
  lost,      \* history: those of them that were not written
  discarded, \* history: the messages Clean threw away
  panicked,  \* "no", or the process has ended: "send" on the closed channel,
             \* a second "close" of it, or a "write" that closes what is closed
  wire       \* "up"; "down", where writes fail; "stuck": the serve goroutine
             \* died holding the connection's mutex, which Conn.Notify takes

noteVars == <<chan, chClosed, isopen, closing, loop, hand, call, target,
              cleaning, cleaned, accepted, handed, lost, discarded, panicked, wire>>
vars == <<connVars, noteVars>>

TypeOK ==
  /\ ConnTypeOK
  /\ \A n \in Notifiers : chan[n] \in Seq(Msgs) /\ Len(chan[n]) <= Cap
  /\ {chClosed, isopen, cleaned} \subseteq [Notifiers -> BOOLEAN]
  /\ closing \in [Notifiers -> {"no", "walk", "other"}]
  /\ loop \in [Notifiers -> {"none", "check", "recv", "write", "end"}]
  /\ hand \in [Notifiers -> Msgs \cup {None}]
  /\ call \in [Msgs -> {"new", "open", "sent", "refused", "full"}]
  /\ cleaning \in [Notifiers -> 0 .. Cap]
  /\ discarded \subseteq Msgs /\ lost \subseteq Msgs
  /\ panicked \in {"no", "send", "close", "write"}
  /\ wire \in {"up", "down", "stuck"}

Init ==
  /\ ConnInit
  /\ chan = [n \in Notifiers |-> <<>>]
  /\ chClosed = [n \in Notifiers |-> FALSE]
  /\ isopen = [n \in Notifiers |-> TRUE]
  /\ closing = [n \in Notifiers |-> "no"]
  /\ loop = [n \in Notifiers |-> "none"]
  /\ hand = [n \in Notifiers |-> None]
  /\ call = [m \in Msgs |-> "new"]
  /\ target = [m \in Msgs |-> None]
  /\ cleaning = [n \in Notifiers |-> 0]
  /\ cleaned = [n \in Notifiers |-> FALSE]
  /\ accepted = [n \in Notifiers |-> <<>>]
  /\ handed = [n \in Notifiers |-> <<>>]
  /\ discarded = {} /\ lost = {}
  /\ panicked = "no" /\ wire = "up"

-----------------------------------------------------------------------------
(* Close: mux.Lock, and when open: close(sending), then isopen = false.    *)

CloseBegin(n, who) ==
  /\ closing[n] = "no"
  /\ IF isopen[n]
     THEN /\ chClosed' = [chClosed EXCEPT ![n] = TRUE]
          /\ closing'  = [closing EXCEPT ![n] = who]
          /\ panicked' = IF chClosed[n] THEN "close" ELSE panicked
     ELSE UNCHANGED <<chClosed, closing, panicked>>
  /\ UNCHANGED <<chan, isopen, loop, hand, call, target, cleaning, cleaned,
                 accepted, handed, lost, discarded, wire>>

ClearOpen_missing(n) == UNCHANGED isopen    \* fault: the flag stays up
ClearOpen(n) == isopen' = [isopen EXCEPT ![n] = FALSE]

CloseEnd(n) ==
  /\ closing[n] # "no"
  /\ ClearOpen(n)
  /\ closing' = [closing EXCEPT ![n] = "no"]
  /\ UNCHANGED <<chan, chClosed, loop, hand, call, target, cleaning, cleaned,
                 accepted, handed, lost, discarded, panicked, wire>>

-----------------------------------------------------------------------------
(* The connection, as WsConn has it; running the handler of a notifier is  *)
(* calling its Close.  The walk waits for the Close it called to return.   *)

Handle(h, who) ==
  IF h \in Notifiers THEN CloseBegin(h, who) ELSE UNCHANGED noteVars

Terminating ==
  /\ \A n \in Notifiers : closing[n] # "walk"
  /\ \/ TermRun /\ Handle(snap[idx], "walk")
     \/ ((TermBegin /\ wire # "stuck") \/ TermRange \/ TermEnd) /\ UNCHANGED noteVars

RunHandler(h) == RunSpawned(h) /\ Handle(h, "other")

\* The peer, the network, Conn.Close or the end of the serve loop; and the serve
\* goroutine's panic in codec.Close, after the walk, or in a reply of its own.
WireFails ==
  /\ \/ wire = "up" /\ wire' = "down"
     \/ wire = "down" /\ term \in {"serving", "done"} /\ wire' = "stuck"
  /\ UNCHANGED <<connVars, chan, chClosed, isopen, closing, loop, hand, call, target,
                 cleaning, cleaned, accepted, handed, lost, discarded, panicked>>

Register(h) == (OnCloseBegin(h) \/ OnCloseEnd(h)) /\ UNCHANGED noteVars

AppClose(n) ==
  AppCloses /\ loop[n] # "none" /\ CloseBegin(n, "other") /\ UNCHANGED connVars

\* NewNotifier, once OnClose has returned: the loop is started.
StartLoop(n) ==
  /\ reg[n] = "done" /\ loop[n] = "none"
  /\ loop' = [loop EXCEPT ![n] = "check"]
  /\ UNCHANGED <<connVars, chan, chClosed, isopen, closing, hand, call, target,
                 cleaning, cleaned, accepted, handed, lost, discarded, panicked, wire>>

-----------------------------------------------------------------------------
(* The loop goroutine.                                                     *)

LoopCheck(n) ==
  /\ loop[n] = "check"
  /\ loop' = [loop EXCEPT ![n] = IF isopen[n] THEN "recv" ELSE "end"]
  /\ UNCHANGED <<connVars, chan, chClosed, isopen, closing, hand, call, target,
                 cleaning, cleaned, accepted, handed, lost, discarded, panicked, wire>>

LoopRecv(n) ==
  /\ loop[n] = "recv"
  /\ \/ /\ chan[n] # <<>>
        /\ hand' = [hand EXCEPT ![n] = Head(chan[n])]
        /\ chan' = [chan EXCEPT ![n] = Tail(@)]
        /\ loop' = [loop EXCEPT ![n] = "write"]
     \/ /\ chan[n] = <<>> /\ chClosed[n]
        /\ loop' = [loop EXCEPT ![n] = "end"]
        /\ UNCHANGED <<hand, chan>>
  /\ UNCHANGED <<connVars, chClosed, isopen, closing, call, target, cleaning,
                 cleaned, accepted, handed, lost, discarded, panicked, wire>>

AfterWrite_once == "end"       \* fault: an if where the code has a for
AfterWrite == "check"

\* Conn.Notify or Conn.NotifyEx, whose error is dropped: a message json refuses,
\* or that finds the connection down, is lost.  A large one may panic instead, on
\* a connection closed before (WsRpc.EncodePanics).
LoopWrite(n) ==
  /\ loop[n] = "write" /\ wire # "stuck"
  /\ \/ /\ handed' = [handed EXCEPT ![n] = Append(@, hand[n])]
        /\ lost' = IF wire = "up" /\ hand[n] \notin Unfit THEN lost
                   ELSE lost \cup {hand[n]}
        /\ hand' = [hand EXCEPT ![n] = None]
        /\ loop' = [loop EXCEPT ![n] = AfterWrite]
        /\ UNCHANGED panicked
     \/ /\ wire = "down" /\ hand[n] \notin Unfit
        /\ panicked' = "write"
        /\ UNCHANGED <<handed, lost, hand, loop>>
  /\ UNCHANGED <<connVars, chan, chClosed, isopen, closing, call, target, cleaning,
                 cleaned, accepted, discarded, wire>>

-----------------------------------------------------------------------------
(* Notify and NotifyArr: look at isopen, then try to send.                 *)

NotifyCheck(m, n) ==
  /\ call[m] = "new" /\ loop[n] # "none"
  /\ \A k \in 1 .. m - 1 : call[k] # "new"
  /\ target' = [target EXCEPT ![m] = n]
  /\ call'   = [call EXCEPT ![m] = IF isopen[n] THEN "open" ELSE "refused"]
  /\ UNCHANGED <<connVars, chan, chClosed, isopen, closing, loop, hand, cleaning,
                 cleaned, accepted, handed, lost, discarded, panicked, wire>>

HasRoom_plusOne(n) == Len(chan[n]) <= Cap    \* fault: off by one
HasRoom(n) == Len(chan[n]) < Cap

Buffer_front(n, m) == chan' = [chan EXCEPT ![n] = <<m>> \o @]   \* fault: a stack
Buffer(n, m) == chan' = [chan EXCEPT ![n] = Append(@, m)]

NotifySend(m) ==
  LET n == target[m] IN
  /\ call[m] = "open"
  /\ \/ /\ chClosed[n]
        /\ panicked' = "send"
        /\ UNCHANGED <<call, chan, accepted>>
     \/ /\ ~chClosed[n] /\ HasRoom(n)
        /\ Buffer(n, m)
        /\ accepted' = [accepted EXCEPT ![n] = Append(@, m)]
        /\ call'     = [call EXCEPT ![m] = "sent"]
        /\ UNCHANGED panicked
     \/ /\ ~chClosed[n] /\ ~HasRoom(n)
        /\ call' = [call EXCEPT ![m] = "full"]
        /\ UNCHANGED <<chan, accepted, panicked>>
  /\ UNCHANGED <<connVars, chClosed, isopen, closing, loop, hand, target,
                 cleaning, cleaned, handed, lost, discarded, wire>>

-----------------------------------------------------------------------------
(* Clean: throw away all but one of the messages buffered when it starts.  *)

CleanBegin(n) ==
  /\ loop[n] # "none" /\ ~cleaned[n]
  /\ cleaned'  = [cleaned EXCEPT ![n] = TRUE]
  /\ cleaning' = [cleaning EXCEPT ![n] = IF Len(chan[n]) > 1 THEN Len(chan[n]) ELSE 0]
  /\ UNCHANGED <<connVars, chan, chClosed, isopen, closing, loop, hand, call,
                 target, accepted, handed, lost, discarded, panicked, wire>>

CleanStep(n) ==
  /\ cleaning[n] > 0
  /\ IF isopen[n] /\ cleaning[n] > 1 /\ chan[n] # <<>>
     THEN /\ discarded' = discarded \cup {Head(chan[n])}
          /\ chan'      = [chan EXCEPT ![n] = Tail(@)]
          /\ cleaning'  = [cleaning EXCEPT ![n] = @ - 1]
     ELSE /\ cleaning' = [cleaning EXCEPT ![n] = 0]
          /\ UNCHANGED <<chan, discarded>>
  /\ UNCHANGED <<connVars, chClosed, isopen, closing, loop, hand, call, target,
                 cleaned, accepted, handed, lost, panicked, wire>>

-----------------------------------------------------------------------------
LoopStep(n) == StartLoop(n) \/ LoopCheck(n) \/ LoopRecv(n) \/ LoopWrite(n)

EndClose(n) == CloseEnd(n) /\ UNCHANGED connVars

Next ==
  /\ panicked = "no"
  /\ \/ Terminating \/ WireFails
     \/ \E h \in Handlers : Register(h) \/ RunHandler(h)
     \/ \E n \in Notifiers :
          \/ EndClose(n) \/ AppClose(n) \/ LoopStep(n)
          \/ CleanBegin(n) \/ CleanStep(n)
          \/ \E m \in Msgs : NotifyCheck(m, n)
     \/ \E m \in Msgs : NotifySend(m)

Spec == Init /\ [][Next]_vars

(***************************************************************************)
(* Every goroutine that has been started is scheduled; a write to the      *)
(* connection returns, unless the mutex is stuck.  Nobody has to create a  *)
(* notifier, notify, clean or end the connection, but a termination that   *)
(* has begun goes on.                                                      *)
(***************************************************************************)
Fairness ==
  /\ WF_vars(panicked = "no" /\ term # "serving" /\ Terminating)
  /\ \A h \in Handlers :
       /\ WF_vars(panicked = "no" /\ reg[h] # "none" /\ Register(h))
       /\ WF_vars(panicked = "no" /\ RunHandler(h))
  /\ \A n \in Notifiers :
       WF_vars(panicked = "no" /\ EndClose(n)) /\ WF_vars(panicked = "no" /\ LoopStep(n))

FairSpec == Spec /\ Fairness

-----------------------------------------------------------------------------
(* Properties.                                                             *)

\* What Notify accepted has been handed to Conn.Notify, is in flight, buffered,
\* or was thrown away by Clean: nothing is duplicated, the order of Notify is the
\* order of the writes, up to the end of the loop; and while the connection is up
\* only what json cannot marshal is handed on without being written.
Conserved ==
  /\ \A n \in Notifiers :
       LET line == Line(handed[n], hand[n], chan[n])
       IN  /\ ToSet(line) = ToSet(accepted[n]) \ discarded
           /\ InOrderOf(line, accepted[n]) /\ IsInjective(accepted[n])
  /\ wire = "up" => lost \subseteq Unfit

\* However Close is called - by the application, by the walk over the close
\* handlers and by the goroutine OnClose starts, at once - the channel is
\* closed only once.
ClosedOnce == panicked # "close"

\* Once the connection terminates, the loop of every notifier ends, also of
\* one created while or after it terminates, unless it waits for a mutex that
\* the serve goroutine left locked: no other goroutine is left behind.
LoopEnds == \A n \in Notifiers :
  closed /\ reg[n] # "none"
    ~> loop[n] = "end" \/ (wire = "stuck" /\ loop[n] = "write") \/ panicked # "no"

\* An accepted notification that json can marshal is written while the connection
\* is up, unless Clean discards it, the notifier is closed, or the process ends.
EventuallyWritten == \A m \in Msgs, n \in Notifiers :
  call[m] = "sent" /\ target[m] = n /\ m \notin Unfit
    ~> \/ Contains(handed[n], m) /\ m \notin lost
       \/ m \in discarded \/ wire # "up" \/ chClosed[n] \/ panicked # "no"

\* "notifier closed" (notifier.go:74, 93) is what Notify says of a notifier
\* that has been closed; it does not end the process.
NotifyReturns == panicked # "send"
=============================================================================
