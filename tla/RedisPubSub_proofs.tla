------------------------- MODULE RedisPubSub_proofs -------------------------
(***************************************************************************)
(* Proofs about RedisPubSub, for any set of redis channels, any capacity   *)
(* of the Go channel and any number of messages and connections.           *)
(*                                                                         *)
(* The inductive invariant has two halves that need nothing of each other: *)
(* the flow of the messages, from the connection to the callbacks, and the *)
(* subscriptions, across the reconnects.                                   *)
(***************************************************************************)
EXTENDS RedisPubSub, Pipeline_proofs

flowVars == <<wire, q, hand, push, topic, got, delivered, lost, unheard>>
subVars  == <<gen, link, served, subs, op, pinging, recv, todo, chClosed,
              closing, panicked, overlap>>

FlowTypes ==
  /\ wire \in Seq(Msgs) /\ q \in Seq(Msgs) /\ Len(q) <= Cap
  /\ got \in Seq(Msgs) /\ delivered \in Seq(Msgs)
  /\ hand \in Msgs \cup {None}
  /\ push \in {"select", "lookup", "callback", "done"}
  /\ topic \in Seq(Channels) /\ Len(topic) <= MaxMsgs
  /\ lost \subseteq Msgs /\ unheard \subseteq Msgs

SubTypes ==
  /\ gen \in 1..MaxConns /\ link \in {"up", "gone", "broken"}
  /\ pinging \in BOOLEAN /\ chClosed \in BOOLEAN /\ panicked \in BOOLEAN
  /\ served \subseteq Channels /\ subs \subseteq Channels
  /\ todo \subseteq Channels /\ overlap \subseteq Channels
  /\ op \in [Channels -> {"off", "sent", "on", "unsent"}]
  /\ recv \in {"receive", "full", "sleep", "range", "resub", "exit"}
  /\ closing \in {"no", "psc", "done"}

\* What is still on the wire is younger than what was read, and nothing was
\* dropped that was not read; pushMessages has a message in hand exactly
\* between taking it and calling its callback.
FlowIInv ==
  /\ FlowTypes
  /\ Conserved
  /\ Ascending(wire)
  /\ \A w \in ToSet(wire), g \in ToSet(got) : g < w
  /\ ToSet(wire) \subseteq 1..Len(topic) /\ ToSet(got) \subseteq 1..Len(topic)
  /\ lost \cup unheard \subseteq ToSet(got)
  /\ hand # None <=> push \in {"lookup", "callback"}

\* The map and the application's progress agree; but for the channels a
\* reconnect overtook, a channel whose SUBSCRIBE was written is served, and one
\* in the map is served or reSubscribe still has it to do.
SubIInv ==
  /\ SubTypes
  /\ \A c \in Channels :
       /\ c \in subs <=> op[c] \in {"on", "unsent"}
       /\ link = "up" /\ recv # "range" /\ c \notin overlap =>
            /\ op[c] = "sent" => c \in served
            /\ op[c] = "on" => c \in served \cup todo
  /\ recv # "resub" => todo = {}

LEMMA TypeParts == TypeOK <=> FlowTypes /\ SubTypes
BY DEF TypeOK, FlowTypes, SubTypes

LEMMA MsgsArePositive == 0 \notin Msgs /\ Msgs \subseteq Int /\ None \notin Msgs /\ None = 0
BY DEF Msgs, None

\* The line as a value: its type, and what is in it.
LEMMA LineTyped ==
  ASSUME FlowTypes
  PROVE  Line(delivered, hand, q) \in Seq(Msgs)
BY MsgsArePositive, LineShape DEF FlowTypes

LEMMA LinePuts ==
  ASSUME FlowTypes, NEW m \in Msgs
  PROVE  Line(delivered, hand, Append(q, m)) = Append(Line(delivered, hand, q), m)
<1>1. delivered \in Seq(Msgs) /\ hand \in Msgs \cup {0} /\ q \in Seq(Msgs)
  BY MsgsArePositive DEF FlowTypes
<1>2. QED
  BY <1>1, MsgsArePositive, LinePut, SMTT(30)

LEMMA InitIInv == Init => FlowIInv /\ SubIInv
<1> SUFFICES ASSUME Init PROVE FlowIInv /\ SubIInv
  OBVIOUS
<1> USE BoundsAssumption, CapAssumption DEF Init
<1>1. FlowTypes
  BY DEF FlowTypes
<1>2. Line(delivered, hand, q) = <<>> /\ ToSet(got) = {} /\ ToSet(wire) = {}
  <2>1. Line(delivered, hand, q) = <<>> \o <<>> \o <<>>
    BY DEF Line, None
  <2>2. <<>> \o <<>> \o <<>> = <<>>
    OBVIOUS
  <2>3. QED
    BY <2>1, <2>2, EmptyQueue
<1>3. Conserved /\ Ascending(wire)
  <2>1. Ascending(<<>>)
    BY DEF Ascending
  <2>2. QED
    BY <1>2, <2>1, EmptyQueue DEF Conserved
<1>4. FlowIInv
  BY <1>1, <1>2, <1>3 DEF FlowIInv
<1>5. SubTypes
  <2>1. op \in [Channels -> {"off", "sent", "on", "unsent"}] /\ gen \in 1..MaxConns
    OBVIOUS
  <2>2. link \in {"up", "gone", "broken"} /\ recv \in {"receive"} /\ closing \in {"no"}
    BY DEF Dialled
  <2>3. QED
    BY <2>1, <2>2 DEF SubTypes
<1>6. QED
  BY <1>4, <1>5 DEF SubIInv

-----------------------------------------------------------------------------
(* The flow of the messages.                                               *)

LEMMA FlowStays ==
  ASSUME FlowIInv, UNCHANGED flowVars
  PROVE  FlowIInv'
BY DEF FlowIInv, flowVars, FlowTypes, Conserved, Gone

LEMMA PublishFlow ==
  ASSUME FlowIInv, NEW c \in Channels, Publish(c)
  PROVE  FlowIInv'
<1> DEFINE m == Len(topic) + 1
<1> USE DEF FlowIInv
<1>1. /\ topic' = Append(topic, c) /\ Len(topic') = m /\ topic' \in Seq(Channels)
      /\ m \in Nat /\ m <= MaxMsgs /\ m \in Msgs
  BY BoundsAssumption DEF Publish, FlowTypes, Msgs
<1>2. wire' = Append(wire, m)
  BY <1>1 DEF Publish
<1>3. wire' \in Seq(Msgs) /\ ToSet(wire') = ToSet(wire) \cup {m}
  BY <1>1, <1>2, AppendQueue DEF FlowTypes
<1>4. Ascending(wire')
  <2>1. \A y \in ToSet(wire) : y < m
    BY <1>1
  <2>2. wire \in Seq(Msgs) /\ Ascending(wire)
    BY DEF FlowTypes
  <2>3. QED
    BY <1>1, <1>2, <2>1, <2>2, PutKeeps, MsgsArePositive
<1>5. UNCHANGED <<q, hand, push, got, delivered, lost, unheard>>
  BY DEF Publish, chanVars
<1>6. FlowTypes'
  BY <1>1, <1>3, <1>5 DEF FlowTypes
<1>7. Conserved'
  BY <1>5 DEF Conserved, Gone
<1>8. QED
  BY <1>1, <1>3, <1>4, <1>5, <1>6, <1>7

\* A message read is the oldest of the wire; it joins the line or is dropped.
LEMMA ReceiveFlow ==
  ASSUME FlowIInv, Receive
  PROVE  FlowIInv'
<1> DEFINE m == Head(wire)
           line == Line(delivered, hand, q)
<1> USE MsgsArePositive DEF FlowIInv
<1>1. /\ wire # <<>> /\ wire' = Tail(wire) /\ got' = Append(got, m)
      /\ UNCHANGED <<hand, push, topic, delivered, unheard>>
  BY DEF Receive
<1>2. /\ m \in Msgs /\ m \in ToSet(wire) /\ wire' \in Seq(Msgs)
      /\ ToSet(wire) = {m} \cup ToSet(wire') /\ DOMAIN wire = 1..Len(wire)
      /\ m = wire[1] /\ Len(wire') = Len(wire) - 1 /\ Len(wire) > 0
      /\ \A i \in 1..Len(wire') : wire'[i] = wire[i + 1]
  BY <1>1, TailQueue, ElementOf DEF FlowTypes
<1>3. /\ got' \in Seq(Msgs) /\ ToSet(got') = ToSet(got) \cup {m}
      /\ m \notin ToSet(got) /\ Ascending(got')
  <2>1. got' \in Seq(Msgs) /\ ToSet(got') = ToSet(got) \cup {m}
    BY <1>1, <1>2, AppendQueue DEF FlowTypes
  <2>2. \A g \in ToSet(got) : g < m
    BY <1>2
  <2>3. ToSet(got) \subseteq Msgs
    BY ElementOf DEF FlowTypes
  <2>4. m \notin ToSet(got)
    BY <1>2, <2>2
  <2>5. Ascending(got')
    BY <1>1, <1>2, <2>2, PutKeeps DEF FlowTypes, Conserved
  <2>6. QED
    BY <2>1, <2>4, <2>5
<1>4. Ascending(wire') /\ \A w \in ToSet(wire') : m < w
  <2>1. \A i, j \in 1..Len(wire) : i < j => wire[i] < wire[j]
    BY <1>2 DEF Ascending
  <2>2. DOMAIN wire' = 1..Len(wire') /\ Len(wire) \in Nat
    BY <1>2, ElementOf DEF FlowTypes
  <2>3. Ascending(wire')
    BY <1>2, <2>1, <2>2 DEF Ascending
  <2>4. \A w \in ToSet(wire') : \E i \in 1..Len(wire') : w = wire'[i]
    BY <1>2, ElementOf
  <2>5. \A w \in ToSet(wire') : m < w
    BY <1>2, <2>1, <2>2, <2>4
  <2>6. QED
    BY <2>3, <2>5
<1>5. /\ \A w \in ToSet(wire'), g \in ToSet(got') : g < w
      /\ ToSet(wire') \subseteq 1..Len(topic') /\ ToSet(got') \subseteq 1..Len(topic')
  BY <1>1, <1>2, <1>3, <1>4
<1>6. line \in Seq(Msgs) /\ ToSet(line) \subseteq ToSet(got)
  BY LineTyped DEF Conserved
\* Room in the channel: the line grows.
<1>7. CASE ~chClosed /\ HasRoom /\ q' = Append(q, m) /\ UNCHANGED lost
  <2>1. q' \in Seq(Msgs) /\ Len(q') <= Cap
    BY <1>2, <1>7, AppendQueue, CapAssumption DEF FlowTypes, HasRoom
  <2>2. FlowTypes'
    BY <1>1, <1>2, <1>3, <1>7, <2>1 DEF FlowTypes
  <2>3. Line(delivered, hand, q)' = Append(line, m)
    <3>1. Line(delivered, hand, Append(q, m)) = Append(line, m)
      BY <1>2, LinePuts
    <3>2. QED
      BY <1>1, <1>7, <3>1
  <2>4. ToSet(Line(delivered, hand, q)') = ToSet(line) \cup {m}
    BY <1>2, <1>6, <2>3, AppendQueue
  <2>5. \A y \in ToSet(line) : y < m
    BY <1>2, <1>6
  <2>6. Ascending(Line(delivered, hand, q)')
    <3>1. Ascending(line)
      BY DEF Conserved
    <3>2. Ascending(Append(line, m))
      BY <1>2, <1>6, <2>5, <3>1, PutKeeps
    <3>3. QED
      BY <2>3, <3>2
  <2>7. \A x : Gone(x)' <=> Gone(x)
    BY <1>1, <1>7 DEF Gone
  <2>8. ~Gone(m)
    BY <1>3 DEF Gone
  <2>9. Conserved'
    BY <1>3, <2>4, <2>6, <2>7, <2>8 DEF Conserved
  <2>10. QED
    BY <1>1, <1>3, <1>4, <1>5, <1>7, <2>2, <2>9
\* The channel is full or closed: the message is lost.
<1>8. CASE lost' = lost \cup {m} /\ UNCHANGED q
  <2>1. FlowTypes'
    BY <1>1, <1>2, <1>3, <1>8 DEF FlowTypes
  <2>2. Line(delivered, hand, q)' = line
    BY <1>1, <1>8
  <2>3. \A x : Gone(x)' <=> Gone(x) \/ x = m
    BY <1>1, <1>8 DEF Gone
  <2>4. m \notin ToSet(line)
    BY <1>3, <1>6
  <2>5. Conserved'
    BY <1>3, <2>2, <2>3, <2>4 DEF Conserved
  <2>6. QED
    BY <1>1, <1>3, <1>4, <1>5, <1>8, <2>1, <2>5
<1>9. QED
  BY <1>7, <1>8 DEF Receive

\* An entry leaves the line for the messages that are gone.
LEMMA EntryLost ==
  ASSUME FlowIInv, FlowTypes', NEW m, UNCHANGED got,
         \A x : Gone(x)' <=> Gone(x) \/ x = m,
         Drops(Line(delivered, hand, q), Line(delivered, hand, q)', m)
  PROVE  Conserved' /\ m \in ToSet(got)
<1> DEFINE line == Line(delivered, hand, q)
<1> USE DEF FlowIInv
<1>1. line \in Seq(Msgs) /\ line' \in Seq(Msgs)
  BY LineTyped, MsgsArePositive, LineShape DEF FlowTypes
<1>3. Ascending(line) /\ Drops(line, line', m)
  BY DEF Conserved
<1> HIDE DEF line
<1>4. IsInjective(line)
  BY <1>1, <1>3, AscendingIsInjective, MsgsArePositive
<1>5. /\ m \in ToSet(line)
      /\ Ascending(line') /\ ToSet(line') = ToSet(line) \ {m}
  BY <1>1, <1>3, <1>4, DropKeeps, MsgsArePositive
<1>7. ToSet(line) = {x \in ToSet(got) : ~Gone(x)} /\ Ascending(got)
  BY DEF Conserved, line
<1>8. ToSet(line') = {x \in ToSet(got') : ~Gone(x)'} /\ Ascending(got')
  BY <1>5, <1>7
<1>9. QED
  BY <1>5, <1>7, <1>8 DEF Conserved, line

LEMMA DropOldestFlow ==
  ASSUME FlowIInv, DropOldest
  PROVE  FlowIInv'
<1> USE MsgsArePositive DEF FlowIInv
<1>1. CASE q # <<>> /\ q' = Tail(q) /\ lost' = lost \cup {Head(q)}
  <2>1. UNCHANGED <<wire, hand, push, topic, got, delivered, unheard>>
    BY DEF DropOldest, wireVars
  <2>2. q' \in Seq(Msgs) /\ Len(q') <= Cap /\ Head(q) \in Msgs
    BY <1>1, TailQueue, CapAssumption, ElementOf DEF FlowTypes
  <2>3. FlowTypes'
    BY <1>1, <2>1, <2>2 DEF FlowTypes
  <2>4. \A x : Gone(x)' <=> Gone(x) \/ x = Head(q)
    BY <1>1, <2>1 DEF Gone
  <2>5. Drops(Line(delivered, hand, q), Line(delivered, hand, q)', Head(q))
    <3>1. delivered \in Seq(Msgs) /\ hand \in Msgs \cup {0} /\ q \in Seq(Msgs)
      BY DEF FlowTypes
    <3>2. Drops(Line(delivered, hand, q), Line(delivered, hand, Tail(q)), Head(q))
      BY <1>1, <3>1, LineSteps
    <3>3. Line(delivered, hand, q)' = Line(delivered, hand, Tail(q))
      BY <1>1, <2>1
    <3>4. QED
      BY <3>2, <3>3
  <2>6. Conserved' /\ Head(q) \in ToSet(got)
    BY <2>1, <2>3, <2>4, <2>5, EntryLost
  <2>7. QED
    BY <1>1, <2>1, <2>3, <2>6
<1>2. CASE UNCHANGED <<q, lost>>
  BY <1>2, FlowStays DEF DropOldest, flowVars, wireVars
<1>3. QED
  BY <1>1, <1>2 DEF DropOldest

LEMMA RedialFlow ==
  ASSUME FlowIInv, Redial
  PROVE  FlowIInv'
<1> USE DEF FlowIInv
<1>1. wire' = <<>> /\ UNCHANGED <<q, hand, push, topic, got, delivered, lost, unheard>>
  BY DEF Redial, chanVars, histVars
<1>2. ToSet(wire') = {} /\ wire' \in Seq(Msgs) /\ Ascending(wire')
  BY <1>1, EmptyQueue DEF Ascending
<1>3. FlowTypes' /\ Conserved'
  BY <1>1, <1>2 DEF FlowTypes, Conserved, Gone
<1>4. QED
  BY <1>1, <1>2, <1>3

\* pushMessages moves the marks of the line, or gives the entry in hand up.
LEMMA PushFlow ==
  ASSUME FlowIInv, PushStep
  PROVE  FlowIInv'
<1> USE MsgsArePositive DEF FlowIInv
<1>1. CASE PushTake
  <2>1. /\ hand = 0 /\ q # <<>> /\ hand' = Head(q) /\ q' = Tail(q) /\ push' = "lookup"
        /\ UNCHANGED <<wire, topic, got, delivered, lost, unheard>>
    BY <1>1 DEF PushTake, wireVars, histVars
  <2>2. /\ Head(q) \in Msgs /\ Tail(q) \in Seq(Msgs) /\ Len(Tail(q)) <= Cap
    BY <2>1, TailQueue, CapAssumption, ElementOf DEF FlowTypes
  <2>3. FlowTypes' /\ hand' # None
    BY <2>1, <2>2 DEF FlowTypes
  <2>4. Line(delivered, hand, q)' = Line(delivered, hand, q)
    BY <2>1, LineTake DEF FlowTypes
  <2>5. Conserved'
    BY <2>1, <2>4 DEF Conserved, Gone
  <2>6. QED
    BY <2>1, <2>3, <2>5
<1>2. CASE PushLookup
  <2>1. CASE push' = "callback" /\ UNCHANGED <<hand, unheard>>
    <3>1. UNCHANGED <<wire, topic, q, got, delivered, lost>>
      BY <1>2 DEF PushLookup, wireVars
    <3>2. push = "lookup"
      BY <1>2 DEF PushLookup
    <3>3. FlowTypes' /\ Conserved'
      BY <2>1, <3>1 DEF FlowTypes, Conserved, Gone
    <3>4. QED
      BY <2>1, <3>1, <3>2, <3>3
  <2>2. CASE push' = "select" /\ hand' = None /\ unheard' = unheard \cup {hand}
    <3>1. UNCHANGED <<wire, topic, q, got, delivered, lost>> /\ hand \in Msgs
      BY <1>2 DEF PushLookup, wireVars, FlowTypes
    <3>2. FlowTypes'
      BY <2>2, <3>1 DEF FlowTypes
    <3>3. \A x : Gone(x)' <=> Gone(x) \/ x = hand
      BY <2>2, <3>1 DEF Gone
    <3>4. Drops(Line(delivered, hand, q), Line(delivered, hand, q)', hand)
      <4>1. delivered \in Seq(Msgs) /\ q \in Seq(Msgs) /\ hand \in Msgs \cup {0} /\ hand # 0
        BY <3>1 DEF FlowTypes
      <4>2. Drops(Line(delivered, hand, q), Line(delivered, 0, q), hand)
        BY <4>1, LineSteps
      <4>3. Line(delivered, hand, q)' = Line(delivered, 0, q)
        BY <2>2, <3>1
      <4>4. QED
        BY <4>2, <4>3
    <3>5. Conserved' /\ hand \in ToSet(got)
      BY <3>1, <3>2, <3>3, <3>4, EntryLost
    <3>6. QED
      BY <2>2, <3>1, <3>2, <3>5
  <2>3. QED
    BY <1>2, <2>1, <2>2 DEF PushLookup
<1>3. CASE PushCall
  <2>1. /\ hand \in Msgs /\ delivered' = Append(delivered, hand) /\ hand' = 0
        /\ push' = "select" /\ UNCHANGED <<wire, topic, q, got, lost, unheard>>
    BY <1>3 DEF PushCall, wireVars, FlowTypes
  <2>2. delivered' \in Seq(Msgs)
    BY <2>1, AppendQueue DEF FlowTypes
  <2>3. FlowTypes'
    BY <2>1, <2>2 DEF FlowTypes
  <2>4. Line(delivered, hand, q)' = Line(delivered, hand, q)
    BY <2>1, LineDone DEF FlowTypes
  <2>5. Conserved'
    BY <2>1, <2>4 DEF Conserved, Gone
  <2>6. QED
    BY <2>1, <2>3, <2>5
<1>4. CASE PushDone
  <2>1. push = "select" /\ push' = "done"
        /\ UNCHANGED <<wire, q, hand, topic, got, delivered, lost, unheard>>
    BY <1>4 DEF PushDone, wireVars, histVars
  <2>2. FlowTypes' /\ Conserved'
    BY <2>1 DEF FlowTypes, Conserved, Gone
  <2>3. QED
    BY <2>1, <2>2
<1>5. QED
  BY <1>1, <1>2, <1>3, <1>4 DEF PushStep

LEMMA FlowNext == FlowIInv /\ [Next]_vars => FlowIInv'
<1> SUFFICES ASSUME FlowIInv, [Next]_vars PROVE FlowIInv'
  OBVIOUS
<1>1. CASE UNCHANGED vars
  BY <1>1, FlowStays DEF vars, flowVars, wireVars, chanVars, histVars
<1>2. CASE Receive \/ DropOldest \/ Redial \/ PushStep
  BY <1>2, ReceiveFlow, DropOldestFlow, RedialFlow, PushFlow
<1>3. ASSUME NEW c \in Channels, Publish(c) PROVE FlowIInv'
  BY <1>3, PublishFlow
<1>4. CASE ReceiveError \/ RangeBegin \/ RangeEnd \/ ConnectionLost \/ CloseBegin \/ CloseEnd
  <2>1. UNCHANGED flowVars
    BY <1>4 DEF ReceiveError, RangeBegin, RangeEnd, ConnectionLost, CloseBegin, CloseEnd,
       flowVars, wireVars, chanVars, histVars
  <2>2. QED
    BY <2>1, FlowStays
<1>5. ASSUME NEW c \in Channels, ReSub(c) \/ Subscribe(c) \/ MapStep(c) \/ Unsubscribe(c)
      PROVE  FlowIInv'
  <2>1. UNCHANGED flowVars
    BY <1>5 DEF ReSub, Subscribe, MapStep, Subscribed, Unsubscribed, Unsubscribe,
       flowVars, wireVars, chanVars, histVars
  <2>2. QED
    BY <2>1, FlowStays
<1>6. QED
  BY <1>1, <1>2, <1>3, <1>4, <1>5 DEF Next, ReceiveStep

-----------------------------------------------------------------------------
(* The subscriptions.                                                      *)

LEMMA SubStays ==
  ASSUME SubIInv, UNCHANGED subVars
  PROVE  SubIInv'
BY DEF SubIInv, subVars, SubTypes

\* The receiver: what it does to the connection and to todo.
LEMMA ReceiverSubs ==
  ASSUME SubIInv, ReceiveStep
  PROVE  SubIInv'
<1> USE DEF SubIInv
<1>1. CASE Receive
  <2>1. /\ recv' \in {"receive", "full"} /\ panicked' \in BOOLEAN /\ recv = "receive"
        /\ UNCHANGED <<gen, link, served, subs, op, pinging, todo, chClosed, closing, overlap>>
    BY <1>1 DEF Receive, SubTypes, appVars
  <2>2. SubTypes'
    BY <2>1 DEF SubTypes
  <2>3. QED
    BY <2>1, <2>2
<1>2. CASE DropOldest
  <2>1. /\ recv' \in {"receive", "exit"} /\ recv = "full"
        /\ UNCHANGED <<gen, link, served, subs, op, pinging, todo, chClosed, closing, panicked, overlap>>
    BY <1>2 DEF DropOldest, appVars, wireVars
  <2>2. SubTypes'
    BY <2>1 DEF SubTypes
  <2>3. QED
    BY <2>1, <2>2
<1>3. CASE ReceiveError
  <2>1. /\ recv' = "sleep" /\ link' = "broken" /\ recv = "receive"
        /\ UNCHANGED <<gen, served, subs, op, pinging, todo, chClosed, closing, panicked, overlap>>
    BY <1>3 DEF ReceiveError, appVars, chanVars, histVars
  <2>2. SubTypes'
    BY <2>1 DEF SubTypes
  <2>3. QED
    BY <2>1, <2>2
<1>4. CASE Redial
  <2>1. /\ recv' = "range" /\ gen' = gen + 1 /\ gen < MaxConns /\ recv = "sleep"
        /\ link' \in {"up", "broken"} /\ served' = {}
        /\ UNCHANGED <<subs, op, pinging, todo, chClosed, closing, panicked, overlap>>
    BY <1>4 DEF Redial, Dialled, appVars, chanVars, histVars
  <2>2. gen' \in 1..MaxConns
    BY <2>1, BoundsAssumption DEF SubTypes
  <2>3. SubTypes'
    BY <2>1, <2>2 DEF SubTypes
  <2>4. QED
    BY <2>1, <2>3
<1>5. CASE RangeBegin
  <2>1. /\ recv' = "resub" /\ todo' = subs
        /\ overlap' = overlap \cup {c \in Channels : op[c] = "sent"}
        /\ UNCHANGED <<gen, link, served, subs, op, pinging, chClosed, closing, panicked>>
    BY <1>5 DEF RangeBegin, appVars, wireVars, chanVars
  <2>2. SubTypes'
    BY <2>1 DEF SubTypes
  <2>3. QED
    BY <2>1, <2>2
<1>6. CASE RangeEnd
  <2>1. /\ recv' = "receive" /\ recv = "resub" /\ todo = {}
        /\ UNCHANGED <<gen, link, served, subs, op, pinging, todo, chClosed, closing, panicked, overlap>>
    BY <1>6 DEF RangeEnd, appVars, wireVars, chanVars, histVars
  <2>2. SubTypes'
    BY <2>1 DEF SubTypes
  <2>3. QED
    BY <2>1, <2>2
<1>7. ASSUME NEW c \in Channels, ReSub(c) PROVE SubIInv'
  <2>1. /\ recv = "resub" /\ c \in todo /\ todo' = todo \ {c}
        /\ UNCHANGED <<gen, subs, op, pinging, recv, chClosed, closing, panicked, overlap>>
    BY <1>7 DEF ReSub, appVars, chanVars, histVars
  <2>2. \/ link = "up" /\ served' = served \cup {c} /\ UNCHANGED link
        \/ link' \in {"gone", "broken"} /\ UNCHANGED served
    BY <1>7 DEF ReSub, Write
  <2>3. SubTypes'
    BY <2>1, <2>2 DEF SubTypes
  <2>4. QED
    BY <2>1, <2>2, <2>3
<1>8. QED
  BY <1>1, <1>2, <1>3, <1>4, <1>5, <1>6, <1>7 DEF ReceiveStep

\* The application: subscribe and unsubscribe, one step on either side of the
\* write to the map.
LEMMA ApplicationSubs ==
  ASSUME SubIInv, NEW c \in Channels, Subscribe(c) \/ MapStep(c) \/ Unsubscribe(c)
  PROVE  SubIInv'
<1> USE DEF SubIInv
<1>1. CASE Subscribe(c)
  <2>1. /\ op[c] = "off"
        /\ UNCHANGED <<gen, subs, pinging, recv, todo, chClosed, closing, panicked>>
    BY <1>1 DEF Subscribe, chanVars
  <2>2. \/ link = "up" /\ served' = served \cup {c} /\ UNCHANGED link
        \/ link' \in {"gone", "broken"} /\ UNCHANGED served
    BY <1>1 DEF Subscribe, Write
  <2>3. \/ link' = "broken" /\ UNCHANGED <<op, overlap>>
        \/ op' = [op EXCEPT ![c] = "sent"] /\ overlap' = overlap \ {c}
    BY <1>1 DEF Subscribe, WriteFails
  <2>4. SubTypes'
    BY <2>1, <2>2, <2>3 DEF SubTypes
  <2>5. \A d \in Channels : /\ d # c => op'[d] = op[d] /\ (d \in overlap' <=> d \in overlap)
                            /\ op'[c] \in {"off", "sent"}
    BY <2>1, <2>3 DEF SubTypes
  <2>6. link' = "up" => c \in served' /\ served \subseteq served' /\ link = "up"
    BY <2>2
  <2>7. QED
    BY <2>1, <2>4, <2>5, <2>6
<1>2. CASE Subscribed(c)
  <2>1. /\ op[c] = "sent" /\ subs' = subs \cup {c} /\ op' = [op EXCEPT ![c] = "on"]
        /\ pinging' = TRUE
        /\ UNCHANGED <<gen, link, served, recv, todo, chClosed, closing, panicked, overlap>>
    BY <1>2 DEF Subscribed, wireVars, chanVars, histVars
  <2>2. SubTypes'
    BY <2>1 DEF SubTypes
  <2>3. \A d \in Channels : op'[d] = IF d = c THEN "on" ELSE op[d]
    BY <2>1 DEF SubTypes
  <2>4. QED
    BY <2>1, <2>2, <2>3
<1>3. CASE Unsubscribe(c)
  <2>1. /\ op[c] = "on" /\ op' = [op EXCEPT ![c] = "unsent"]
        /\ UNCHANGED <<gen, subs, pinging, recv, todo, chClosed, closing, panicked, overlap>>
    BY <1>3 DEF Unsubscribe, chanVars, histVars
  <2>2. \/ link = "up" /\ served' = served \ {c} /\ UNCHANGED link
        \/ link' \in {"gone", "broken"} /\ UNCHANGED served
    BY <1>3 DEF Unsubscribe, Write
  <2>3. SubTypes'
    BY <2>1, <2>2 DEF SubTypes
  <2>4. \A d \in Channels : op'[d] = IF d = c THEN "unsent" ELSE op[d]
    BY <2>1 DEF SubTypes
  <2>5. QED
    BY <2>1, <2>2, <2>3, <2>4
<1>4. CASE Unsubscribed(c)
  <2>1. /\ op[c] = "unsent" /\ subs' = subs \ {c} /\ op' = [op EXCEPT ![c] = "off"]
        /\ UNCHANGED <<gen, link, served, pinging, recv, todo, chClosed, closing, panicked, overlap>>
    BY <1>4 DEF Unsubscribed, wireVars, chanVars, histVars
  <2>2. SubTypes'
    BY <2>1 DEF SubTypes
  <2>3. \A d \in Channels : op'[d] = IF d = c THEN "off" ELSE op[d]
    BY <2>1 DEF SubTypes
  <2>4. QED
    BY <2>1, <2>2, <2>3
<1>5. QED
  BY <1>1, <1>2, <1>3, <1>4 DEF MapStep

\* Everybody else: the publishers, pushMessages, the network and Close.
LEMMA OthersSubs ==
  ASSUME SubIInv,
         \/ PushStep \/ ConnectionLost \/ CloseBegin \/ CloseEnd
         \/ \E c \in Channels : Publish(c)
  PROVE  SubIInv'
<1> USE DEF SubIInv
<1>1. CASE PushTake \/ PushLookup \/ PushCall \/ \E c \in Channels : Publish(c)
  <2>1. UNCHANGED subVars
    BY <1>1 DEF PushTake, PushLookup, PushCall, Publish, subVars, wireVars, appVars, chanVars, histVars
  <2>2. QED
    BY <2>1, SubStays
<1>2. CASE PushDone \/ ConnectionLost \/ CloseBegin \/ CloseEnd
  <2>1. /\ UNCHANGED <<gen, served, subs, op, pinging, recv, todo, panicked, overlap>>
        /\ link' \in {link, "gone", "broken"}
        /\ closing' \in {closing, "psc", "done"} /\ chClosed' \in {chClosed, TRUE}
    BY <1>2 DEF PushDone, ConnectionLost, CloseBegin, CloseEnd, wireVars, appVars, chanVars, histVars
  <2>2. SubTypes'
    BY <2>1, ZenonT(30) DEF SubTypes
  <2>3. link' = "up" => link = "up"
    BY <2>1
  <2>4. QED
    BY <2>1, <2>2, <2>3
<1>3. QED
  BY <1>1, <1>2 DEF PushStep

LEMMA SubNext == SubIInv /\ [Next]_vars => SubIInv'
<1> SUFFICES ASSUME SubIInv, [Next]_vars PROVE SubIInv'
  OBVIOUS
<1>1. CASE UNCHANGED vars
  BY <1>1, SubStays DEF vars, subVars, wireVars, appVars, chanVars, histVars
<1>2. CASE Next
  <2>1. CASE ReceiveStep
    BY <2>1, ReceiverSubs
  <2>2. CASE \/ PushStep \/ ConnectionLost \/ CloseBegin \/ CloseEnd
             \/ \E c \in Channels : Publish(c)
    BY <2>2, OthersSubs
  <2>3. ASSUME NEW c \in Channels, Subscribe(c) \/ MapStep(c) \/ Unsubscribe(c)
        PROVE  SubIInv'
    BY <2>3, ApplicationSubs
  <2>4. QED
    BY <1>2, <2>1, <2>2, <2>3 DEF Next
<1>3. QED
  BY <1>1, <1>2

-----------------------------------------------------------------------------
(* The theorems.                                                           *)

LEMMA RedisInvariant == Spec => [](FlowIInv /\ SubIInv)
<1>1. FlowIInv /\ SubIInv /\ [Next]_vars => (FlowIInv /\ SubIInv)'
  BY FlowNext, SubNext
<1>2. QED
  BY InitIInv, <1>1, PTL DEF Spec

\* Whatever the number of channels, messages and reconnections and the room in
\* the Go channel, the state of the client stays of its type: the buffer never
\* holds more than its capacity (receiveMessages, pushMessages).
THEOREM PubSubTypeCorrect == Spec => []TypeOK
<1>1. FlowIInv /\ SubIInv => TypeOK
  BY TypeParts DEF FlowIInv, SubIInv
<1>2. QED
  BY <1>1, RedisInvariant, PTL

\* No message read is lost unseen, none is handed out twice or out of the order
\* it was published in, across drops at a full channel and reconnects
\* (receiveMessages, pushMessages).
THEOREM MessagesConserved == Spec => []Conserved
<1>1. FlowIInv => Conserved
  BY DEF FlowIInv
<1>2. QED
  BY <1>1, RedisInvariant, PTL

\* Whenever the client waits for messages on a working connection, the server
\* has it subscribed to every channel of the map that is not being unsubscribed
\* and whose subscribe no reconnect overtook (reSubscribe, subscribe).
THEOREM SubscriptionsAreKept == Spec => []SubscriptionsKept
<1>1. SubIInv => SubscriptionsKept
  BY DEF SubIInv, SubTypes, SubscriptionsKept
<1>2. QED
  BY <1>1, RedisInvariant, PTL
=============================================================================
