---------------------------- MODULE RedisPubSub -----------------------------
(***************************************************************************)
(* The Redis publish/subscribe client (src/redis/pubsub.go): a goroutine   *)
(* that receives messages and reconnects, a goroutine that hands messages  *)
(* to the callbacks, a buffered Go channel between the two, and the        *)
(* goroutines of the application that subscribe, unsubscribe and close.    *)
(*                                                                         *)
(* External: the redis server, which sends what is published on a channel  *)
(* to the connections subscribed to it, and redigo's connections, which    *)
(* fail, and whose writes may succeed though the peer has gone.            *)
(*                                                                         *)
(* Only the current connection psc counts: one that has been replaced is   *)
(* closed and nobody reads it.                                             *)
(***************************************************************************)
EXTENDS Pipeline

CONSTANTS
  Channels,  \* the redis channels the application subscribes to
  Cap,       \* capacity of the Go channel (4096 in the code)
  MaxMsgs,   \* bound: messages published on a channel that is served
  MaxConns   \* bound: connections the client opens; the last one stays up

ASSUME CapAssumption == Cap \in Nat \ {0}
ASSUME BoundsAssumption == MaxMsgs \in Nat /\ MaxConns \in Nat \ {0}

None == 0
Msgs == 1 .. MaxMsgs

VARIABLES
  gen,       \* the number of the current connection
  link,      \* it works ("up"), its peer has gone and nobody has noticed
             \* ("gone"), or every call on it fails ("broken")
  served,    \* the channels the server has it subscribed to
  wire,      \* the messages the server has sent on it and nobody has read
  subs,      \* the keys of the map subscriptions
  op,        \* op[c]: how far the application is with channel c
  pinging,   \* loopPing has started
  recv,      \* where receiveMessages is
  todo,      \* the channels reSubscribe still has to subscribe to
  q,         \* the Go channel ch
  chClosed,  \* ch has been closed
  push,      \* where pushMessages is
  hand,      \* the message it has taken from ch
  closing,   \* how far Close is
  panicked,  \* a send on the closed ch has ended the process
  topic,     \* history: topic[m] is the channel message m was published on
  got,       \* history: the messages read from the connections
  delivered, \* history: the messages callbacks were called with
  lost,      \* history: the messages dropped because ch was full or closed
  unheard,   \* history: the messages no callback was found for
  overlap    \* history: the channels whose subscribe a reSubscribe overtook

wireVars == <<gen, link, served, wire>>
appVars  == <<subs, op, pinging>>
chanVars == <<q, chClosed, push, hand>>
histVars == <<topic, got, delivered, lost, unheard, overlap>>
vars == <<wireVars, appVars, recv, todo, chanVars, closing, panicked, histVars>>

TypeOK ==
  /\ gen \in 1 .. MaxConns /\ link \in {"up", "gone", "broken"}
  /\ {pinging, chClosed, panicked} \subseteq BOOLEAN
  /\ served \cup subs \cup todo \cup overlap \subseteq Channels
  /\ {wire, q, got, delivered} \subseteq Seq(Msgs) /\ Len(q) <= Cap
  /\ op \in [Channels -> {"off", "sent", "on", "unsent"}]
  /\ recv \in {"receive", "full", "sleep", "range", "resub", "exit"}
  /\ push \in {"select", "lookup", "callback", "done"}
  /\ hand \in Msgs \cup {None}
  /\ closing \in {"no", "psc", "done"}
  /\ topic \in Seq(Channels) /\ Len(topic) <= MaxMsgs
  /\ lost \cup unheard \subseteq Msgs

\* The pool's Conn: when it cannot dial it yields a connection of errors.
Dialled(n) == IF n = MaxConns THEN {"up"} ELSE {"up", "broken"}

\* NewPubSubClient
Init ==
  /\ gen = 1 /\ link \in Dialled(1)
  /\ served = {} /\ wire = <<>>
  /\ subs = {} /\ op = [c \in Channels |-> "off"] /\ pinging = FALSE
  /\ recv = "receive" /\ todo = {}
  /\ q = <<>> /\ chClosed = FALSE /\ push = "select" /\ hand = None
  /\ closing = "no" /\ panicked = FALSE
  /\ topic = <<>> /\ got = <<>> /\ delivered = <<>>
  /\ lost = {} /\ unheard = {} /\ overlap = {}

-----------------------------------------------------------------------------
(* The server and the network.                                             *)

Publish(c) ==
  /\ link = "up" /\ c \in served /\ Len(topic) < MaxMsgs
  /\ topic' = Append(topic, c)
  /\ wire'  = Append(wire, Len(topic'))
  /\ UNCHANGED <<gen, link, served, appVars, recv, todo, chanVars, closing,
                 panicked, got, delivered, lost, unheard, overlap>>

ConnectionLost ==
  /\ link = "up" /\ gen < MaxConns
  /\ link' = "gone"
  /\ UNCHANGED <<gen, served, wire, appVars, recv, todo, chanVars, closing,
                 panicked, histVars>>

\* A command is written: done is what the server makes of it.
Write(done) ==
  \/ link = "up"     /\ served' = done   /\ UNCHANGED link
  \/ link = "gone"   /\ UNCHANGED <<served, link>>
  \/ link # "up"     /\ UNCHANGED served /\ link' = "broken"    \* an error

WriteFails == link' = "broken"

-----------------------------------------------------------------------------
(* receiveMessages.                                                        *)

HasRoom_plusOne == Len(q) <= Cap       \* fault: off by one
HasRoom == Len(q) < Cap

Receive ==
  LET m == Head(wire) IN
  /\ recv = "receive" /\ wire # <<>>
  /\ wire' = Tail(wire)
  /\ got'  = Append(got, m)
  /\ \/ /\ chClosed
        /\ panicked' = TRUE /\ lost' = lost \cup {m}
        /\ UNCHANGED <<q, recv>>
     \/ /\ ~chClosed /\ HasRoom
        /\ q' = Append(q, m)
        /\ UNCHANGED <<recv, lost, panicked>>
     \/ /\ ~chClosed /\ ~HasRoom          \* the default branch is taken
        /\ recv' = "full" /\ lost' = lost \cup {m}
        /\ UNCHANGED <<q, panicked>>
  /\ UNCHANGED <<gen, link, served, appVars, todo, chClosed, push, hand, closing,
                 topic, delivered, unheard, overlap>>

\* _, ok := <-c.ch: the oldest message goes, too; an empty ch blocks.
DropOldest_keeps ==            \* fault: the message taken is put back
  /\ recv = "full"
  /\ recv' = "receive"
  /\ q # <<>> /\ q' = Append(Tail(q), Head(q))
  /\ UNCHANGED <<wireVars, appVars, todo, chClosed, push, hand, closing,
                 panicked, histVars>>

DropOldest ==
  /\ recv = "full"
  /\ \/ /\ q # <<>>
        /\ q' = Tail(q) /\ lost' = lost \cup {Head(q)}
        /\ recv' = "receive"
     \/ /\ q = <<>> /\ chClosed
        /\ recv' = "exit"
        /\ UNCHANGED <<q, lost>>
  /\ UNCHANGED <<wireVars, appVars, todo, chClosed, push, hand, closing,
                 panicked, topic, got, delivered, unheard, overlap>>

\* The connection has failed; or nothing comes for ten seconds, and redigo
\* closes it: only while no pings are sent, whose answers would come.
ReceiveError ==
  /\ recv = "receive"
  /\ link # "up" \/ (~pinging /\ wire = <<>> /\ gen < MaxConns)
  /\ recv' = "sleep" /\ link' = "broken"
  /\ UNCHANGED <<gen, served, wire, appVars, todo, chanVars, closing, panicked, histVars>>

\* reSubscribe: close the connection and take another from the pool.
Redial ==
  /\ recv = "sleep" /\ gen < MaxConns
  /\ gen' = gen + 1
  /\ link' \in Dialled(gen')
  /\ served' = {} /\ wire' = <<>>
  /\ recv' = "range"
  /\ UNCHANGED <<appVars, todo, chanVars, closing, panicked, histVars>>

\* subMu.RLock: until RangeEnd nobody writes to the map.
RangeBegin_empty ==            \* fault: the channels are not walked
  /\ recv = "range"
  /\ recv' = "resub" /\ todo' = {}
  /\ overlap' = overlap \cup {c \in Channels : op[c] = "sent"}
  /\ UNCHANGED <<wireVars, appVars, chanVars, closing, panicked, topic, got,
                 delivered, lost, unheard>>

RangeBegin ==
  /\ recv = "range"
  /\ recv' = "resub" /\ todo' = subs
  /\ overlap' = overlap \cup {c \in Channels : op[c] = "sent"}
  /\ UNCHANGED <<wireVars, appVars, chanVars, closing, panicked, topic, got,
                 delivered, lost, unheard>>

ReSub(c) ==
  /\ recv = "resub" /\ c \in todo
  /\ todo' = todo \ {c}
  /\ Write(served \cup {c})
  /\ UNCHANGED <<gen, wire, appVars, recv, chanVars, closing, panicked, histVars>>

RangeEnd ==
  /\ recv = "resub" /\ todo = {}
  /\ recv' = "receive"
  /\ UNCHANGED <<wireVars, appVars, todo, chanVars, closing, panicked, histVars>>

MapLocked == recv = "resub"

-----------------------------------------------------------------------------
(* pushMessages.                                                           *)

PushTake ==
  /\ push = "select" /\ q # <<>>
  /\ hand' = Head(q) /\ q' = Tail(q)
  /\ push' = "lookup"
  /\ UNCHANGED <<wireVars, appVars, recv, todo, chClosed, closing, panicked, histVars>>

PushLookup ==
  /\ push = "lookup"
  /\ IF topic[hand] \in subs
     THEN push' = "callback" /\ UNCHANGED <<hand, unheard>>
     ELSE push' = "select" /\ hand' = None /\ unheard' = unheard \cup {hand}
  /\ UNCHANGED <<wireVars, appVars, recv, todo, q, chClosed, closing, panicked,
                 topic, got, delivered, lost, overlap>>

PushCall_returns ==            \* fault: the loop ends after a callback
  /\ push = "callback"
  /\ delivered' = Append(delivered, hand)
  /\ push' = "done" /\ hand' = None
  /\ UNCHANGED <<wireVars, appVars, recv, todo, q, chClosed, closing, panicked,
                 topic, got, lost, unheard, overlap>>

PushCall ==
  /\ push = "callback"
  /\ delivered' = Append(delivered, hand)
  /\ push' = "select" /\ hand' = None
  /\ UNCHANGED <<wireVars, appVars, recv, todo, q, chClosed, closing, panicked,
                 topic, got, lost, unheard, overlap>>

\* <-c.doneCh, and the deferred close(c.ch)
PushDone ==
  /\ push = "select" /\ closing # "no"
  /\ push' = "done" /\ chClosed' = TRUE
  /\ UNCHANGED <<wireVars, appVars, recv, todo, q, hand, closing, panicked, histVars>>

-----------------------------------------------------------------------------
(* The application: subscribe, unsubscribe and Close.                      *)

\* psc.Subscribe: with an error the application may try again.
Subscribe(c) ==
  /\ op[c] = "off"
  /\ Write(served \cup {c})
  /\ IF WriteFails
     THEN UNCHANGED <<op, overlap>>
     ELSE op' = [op EXCEPT ![c] = "sent"] /\ overlap' = overlap \ {c}
  /\ UNCHANGED <<gen, wire, subs, pinging, recv, todo, chanVars, closing,
                 panicked, topic, got, delivered, lost, unheard>>

\* The map, and loopPing.
Subscribed(c) ==
  /\ op[c] = "sent" /\ ~MapLocked
  /\ subs' = subs \cup {c}
  /\ op' = [op EXCEPT ![c] = "on"]
  /\ pinging' = TRUE
  /\ UNCHANGED <<wireVars, recv, todo, chanVars, closing, panicked, histVars>>

Unsubscribe(c) ==
  /\ op[c] = "on"
  /\ Write(served \ {c})
  /\ op' = [op EXCEPT ![c] = "unsent"]
  /\ UNCHANGED <<gen, wire, subs, pinging, recv, todo, chanVars, closing,
                 panicked, histVars>>

Unsubscribed(c) ==
  /\ op[c] = "unsent" /\ ~MapLocked
  /\ subs' = subs \ {c}
  /\ op' = [op EXCEPT ![c] = "off"]
  /\ UNCHANGED <<wireVars, pinging, recv, todo, chanVars, closing, panicked, histVars>>

\* Close: close(doneCh), then psc.Close().  (Bound: once; a second call panics.)
CloseBegin ==
  /\ closing = "no"
  /\ closing' = "psc"
  /\ UNCHANGED <<wireVars, appVars, recv, todo, chanVars, panicked, histVars>>

CloseEnd ==
  /\ closing = "psc"
  /\ closing' = "done" /\ link' = "broken"
  /\ UNCHANGED <<gen, served, wire, appVars, recv, todo, chanVars, panicked, histVars>>

-----------------------------------------------------------------------------
ReceiveStep ==
  \/ Receive \/ DropOldest \/ ReceiveError \/ Redial \/ RangeBegin \/ RangeEnd
  \/ \E c \in Channels : ReSub(c)

PushStep == PushTake \/ PushLookup \/ PushCall \/ PushDone

MapStep(c) == Subscribed(c) \/ Unsubscribed(c)

Next ==
  /\ ~panicked
  /\ \/ ReceiveStep \/ PushStep \/ ConnectionLost \/ CloseBegin \/ CloseEnd
     \/ \E c \in Channels : Publish(c) \/ Subscribe(c) \/ MapStep(c) \/ Unsubscribe(c)

Spec == Init /\ [][Next]_vars

(***************************************************************************)
(* The goroutines are scheduled, callbacks return, a mutex is handed on,   *)
(* and a failed connection makes Receive return.  A Go select between two  *)
(* ready cases picks either, again and again: the strong fairness.  Nobody *)
(* has to publish, subscribe, unsubscribe, close or lose the connection.   *)
(***************************************************************************)
Fairness ==
  /\ WF_vars(~panicked /\ ReceiveStep /\ (link # "up" \/ recv # "receive" \/ wire # <<>>))
  /\ WF_vars(~panicked /\ PushStep) /\ SF_vars(~panicked /\ PushDone)
  /\ WF_vars(~panicked /\ CloseEnd)
  /\ \A c \in Channels : SF_vars(~panicked /\ MapStep(c))

FairSpec == Spec /\ Fairness

-----------------------------------------------------------------------------
(* Properties.                                                             *)

Gone(m) == m \in lost \cup unheard

\* Every message read from a connection is delivered, in hand, buffered, was
\* dropped at a full or closed channel, or found no callback, and
\* nothing else; callbacks see the messages in the order they were published, across
\* reconnects (receiveMessages, pushMessages).
Conserved ==
  LET line == Line(delivered, hand, q) IN
  /\ ToSet(line) = {m \in ToSet(got) : ~Gone(m)}
  /\ Ascending(line) /\ Ascending(got)

\* While the client waits for messages on a working connection, the server has
\* it subscribed to every channel in the map, but for those being unsubscribed
\* and those whose subscribe a reconnect overtook (reSubscribe, subscribe).
SubscriptionsKept == \A c \in subs :
  link = "up" /\ recv \in {"receive", "full"} /\ op[c] = "on" /\ c \notin overlap => c \in served

\* The receiver blocks in the default branch for good: it is the only sender.
Stuck == recv = "full" /\ q = <<>> /\ ~chClosed

\* A channel that is subscribed is served again after the connection fails.
ServedAgain == \A c \in Channels :
  c \in subs ~> \/ link = "up" /\ c \in served
                \/ c \in overlap \/ op[c] # "on" \/ Stuck
                \/ closing # "no" \/ panicked

\* A message read is handed to its callback or accounted for, until Close.
EventuallyHandled == \A m \in Msgs :
  Contains(got, m) ~> Contains(delivered, m) \/ Gone(m) \/ closing # "no"

\* Close ends the goroutine that calls the callbacks and closes the channel.
PushEnds == closing # "no" ~> chClosed \/ panicked

\* "Close closes the client connection." (pubsub.go:135): once Close has
\* returned the client has no connection that works.
ClosedForGood == closing = "done" => link # "up"

\* "receiveMessages listens for incoming messages and broadcasts them to the
\* channel" (pubsub.go:42): it never stops listening while the client is open.
KeepsListening == ~Stuck
=============================================================================
