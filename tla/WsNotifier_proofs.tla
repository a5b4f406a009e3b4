------------------------- MODULE WsNotifier_proofs --------------------------
(***************************************************************************)
(* Proofs about WsConn and WsNotifier, for any set of close handlers, any  *)
(* notifiers among them, any number of messages and any capacity.          *)
(*                                                                         *)
(* The connection and the notifiers have an invariant each: a step of the  *)
(* composition is a step of the connection or leaves it alone.             *)
(***************************************************************************)
EXTENDS WsNotifier, Pipeline_proofs

-----------------------------------------------------------------------------
(* The close handlers of the connection.                                   *)

\* The walk over the close handlers has called h.
Walked(h) == \E i \in 1..Len(snap) : i < idx /\ snap[i] = h

FromWalk(h)  == IF Walked(h) THEN 1 ELSE 0
FromSpawn(h) == IF h \in spawned THEN 1 ELSE 0

\* h runs at most once from the walk, and at most once from OnClose: not at all
\* when the connection was open when it was registered.
RunsBounded(h) ==
  /\ reg[h] = "none" => ran[h] = 0 /\ h \notin spawned
  /\ h \in early => reg[h] = "done" /\ h \notin spawned /\ ran[h] <= FromWalk(h)
  /\ ran[h] + FromSpawn(h) <= 1 + FromWalk(h)

\* mu keeps the registration of a handler whole: none is under way when the
\* connection is marked closed.
ConnIInv ==
  /\ ConnTypeOK /\ idx <= Len(snap) + 1
  /\ closed <=> term # "serving"
  /\ term \in {"serving", "range"} => snap = <<>> /\ idx = 1
  /\ ~closed => spawned = {} /\ \A h \in Handlers : ran[h] = 0
  /\ IsInjective(list) /\ \A h \in ToSet(list) : reg[h] = "done"
  /\ IsInjective(snap) /\ \A h \in ToSet(snap) : reg[h] # "none"
  /\ \A h \in Handlers : RunsBounded(h)

LEMMA ConnInitIInv == ConnInit => ConnIInv
<1> SUFFICES ASSUME ConnInit PROVE ConnIInv
  OBVIOUS
<1>1. /\ reg \in [Handlers -> {"none", "append", "done"}] /\ ran \in [Handlers -> Nat]
      /\ \A h \in Handlers : reg[h] = "none" /\ ran[h] = 0
  BY DEF ConnInit
<1>2. /\ list = <<>> /\ snap = <<>> /\ closed = FALSE /\ term = "serving" /\ idx = 1
      /\ spawned = {} /\ early = {}
  BY DEF ConnInit
<1>3. ConnTypeOK
  <2>1. list \in Seq(Handlers) /\ snap \in Seq(Handlers)
    BY <1>2
  <2>2. idx \in Nat \ {0} /\ term \in {"serving", "range", "run", "done"}
    BY DEF ConnInit
  <2>3. closed \in BOOLEAN
    BY DEF ConnInit
  <2>4. spawned \subseteq Handlers /\ early \subseteq Handlers
    BY <1>2
  <2>5. QED
    BY <1>1, <2>1, <2>2, <2>3, <2>4, Zenon DEF ConnTypeOK
<1>4. Len(snap) = 0 /\ ToSet(list) = {} /\ ToSet(snap) = {}
  BY <1>2, EmptyQueue
<1>5. IsInjective(list) /\ IsInjective(snap)
  BY <1>2 DEF IsInjective
<1>6. ASSUME NEW h \in Handlers PROVE RunsBounded(h)
  <2>1. FromWalk(h) \in {0, 1} /\ FromSpawn(h) = 0
    BY <1>2 DEF FromWalk, FromSpawn
  <2>2. ran[h] = 0 /\ h \notin spawned /\ h \notin early
    BY <1>1, <1>2
  <2>3. QED
    BY <2>1, <2>2 DEF RunsBounded
<1>7. QED
  BY <1>1, <1>2, <1>3, <1>4, <1>5, <1>6 DEF ConnIInv

LEMMA OnCloseBeginInv ==
  ASSUME ConnIInv, NEW g \in Handlers, OnCloseBegin(g)
  PROVE  ConnIInv'
<1> USE DEF ConnIInv, ConnTypeOK
<1>1. /\ reg[g] = "none" /\ reg' = [reg EXCEPT ![g] = "append"]
      /\ spawned' = IF closed THEN spawned \cup {g} ELSE spawned
      /\ UNCHANGED <<closed, list, term, snap, idx, ran, early>>
  BY DEF OnCloseBegin, StartIfClosed
<1>2. \A h \in Handlers : reg'[h] = IF h = g THEN "append" ELSE reg[h]
  BY <1>1
<1>3. ConnTypeOK'
  BY <1>1
<1>4. \A h \in ToSet(list) \cup ToSet(snap) : h # g /\ h \in Handlers
  BY <1>1, ElementOf
<1>5. ASSUME NEW h \in Handlers PROVE RunsBounded(h)'
  <2>1. /\ FromWalk(h)' = FromWalk(h) /\ FromWalk(h) \in {0, 1}
        /\ FromSpawn(h) \in {0, 1} /\ FromSpawn(h)' \in {0, 1}
        /\ h # g => FromSpawn(h)' = FromSpawn(h)
    BY <1>1 DEF FromWalk, Walked, FromSpawn
  <2>2. CASE h = g
    BY <1>1, <1>2, <2>1, <2>2 DEF RunsBounded
  <2>3. CASE h # g
    <3>1. (h \in spawned') = (h \in spawned)
      BY <1>1, <2>3
    <3>2. QED
      BY <1>1, <1>2, <2>1, <2>3, <3>1 DEF RunsBounded
  <2>4. QED
    BY <2>2, <2>3
<1>6. QED
  BY <1>1, <1>2, <1>3, <1>4, <1>5

LEMMA OnCloseEndInv ==
  ASSUME ConnIInv, NEW g \in Handlers, OnCloseEnd(g)
  PROVE  ConnIInv'
<1> USE DEF ConnIInv, ConnTypeOK
<1>1. /\ reg[g] = "append" /\ reg' = [reg EXCEPT ![g] = "done"] /\ list' = Append(list, g)
      /\ early' = IF closed THEN early ELSE early \cup {g}
      /\ UNCHANGED <<closed, term, snap, idx, spawned, ran>>
  BY DEF OnCloseEnd
<1>2. \A h \in Handlers : reg'[h] = IF h = g THEN "done" ELSE reg[h]
  BY <1>1
<1>3. g \notin ToSet(list) /\ ToSet(list) \subseteq Handlers /\ ToSet(snap) \subseteq Handlers
  BY <1>1, ElementOf
<1>4. list' \in Seq(Handlers) /\ ToSet(list') = ToSet(list) \cup {g}
  BY <1>1, AppendQueue
<1>5. IsInjective(list')
  BY <1>1, <1>3, AppendIsInjective
<1>6. ConnTypeOK'
  BY <1>1, <1>4
<1>7. ASSUME NEW h \in Handlers PROVE RunsBounded(h)'
  <2>1. /\ FromWalk(h)' = FromWalk(h) /\ FromWalk(h) \in {0, 1}
        /\ FromSpawn(h)' = FromSpawn(h) /\ FromSpawn(h) \in {0, 1}
    BY <1>1 DEF FromWalk, Walked, FromSpawn
  <2>2. CASE h = g
    <3>1. reg'[g] = "done" /\ g \notin early
      BY <1>1, <1>2 DEF RunsBounded
    <3>2. g \in early' => ~closed /\ g \notin spawned' /\ ran'[g] = 0
      BY <1>1, <3>1
    <3>3. QED
      BY <1>1, <2>1, <2>2, <3>1, <3>2 DEF RunsBounded
  <2>3. CASE h # g
    <3>1. (h \in early') = (h \in early)
      BY <1>1, <2>3
    <3>2. QED
      BY <1>1, <1>2, <2>1, <2>3, <3>1 DEF RunsBounded
  <2>4. QED
    BY <2>2, <2>3
<1>8. QED
  BY <1>1, <1>2, <1>3, <1>4, <1>5, <1>6, <1>7

LEMMA RunSpawnedInv ==
  ASSUME ConnIInv, NEW g \in Handlers, RunSpawned(g)
  PROVE  ConnIInv'
<1> USE DEF ConnIInv, ConnTypeOK
<1>1. /\ g \in spawned /\ spawned' = spawned \ {g} /\ ran' = [ran EXCEPT ![g] = @ + 1]
      /\ UNCHANGED <<closed, list, term, snap, idx, reg, early>>
  BY DEF RunSpawned
<1>2. \A h \in Handlers : ran'[h] = IF h = g THEN ran[h] + 1 ELSE ran[h]
  BY <1>1
<1>3. ConnTypeOK' /\ closed
  BY <1>1
<1>4. ASSUME NEW h \in Handlers PROVE RunsBounded(h)'
  <2>1. FromWalk(h)' = FromWalk(h) /\ FromWalk(h) \in {0, 1}
    BY <1>1 DEF FromWalk, Walked
  <2>2. CASE h = g
    <3>1. FromSpawn(h) = 1 /\ FromSpawn(h)' = 0 /\ h \notin early /\ reg[h] # "none"
      BY <1>1, <2>2 DEF FromSpawn, RunsBounded
    <3>2. ran'[h] = ran[h] + 1 /\ ran[h] \in Nat
      BY <1>2, <2>2
    <3>3. QED
      BY <1>1, <2>1, <3>1, <3>2 DEF RunsBounded
  <2>3. CASE h # g
    <3>1. FromSpawn(h)' = FromSpawn(h) /\ (h \in spawned') = (h \in spawned) /\ ran'[h] = ran[h]
      BY <1>1, <1>2, <2>3 DEF FromSpawn
    <3>2. QED
      BY <1>1, <2>1, <3>1 DEF RunsBounded
  <2>4. QED
    BY <2>2, <2>3
<1>5. QED
  BY <1>1, <1>3, <1>4

LEMMA TermBeginInv == ConnIInv /\ TermBegin => ConnIInv'
<1> SUFFICES ASSUME ConnIInv, TermBegin PROVE ConnIInv'
  OBVIOUS
<1> USE DEF ConnIInv, ConnTypeOK
<1>1. /\ term = "serving" /\ closed' = TRUE /\ term' = "range"
      /\ UNCHANGED <<list, snap, idx, reg, spawned, ran, early>>
  BY DEF TermBegin
<1>2. ASSUME NEW h \in Handlers PROVE RunsBounded(h)'
  BY <1>1 DEF RunsBounded, FromWalk, FromSpawn, Walked
<1>3. QED
  BY <1>1, <1>2

\* What the walk sees: the list, or the list with the handler whose append is
\* under way.
LEMMA TermRangeInv == ConnIInv /\ TermRange => ConnIInv'
<1> SUFFICES ASSUME ConnIInv, TermRange PROVE ConnIInv'
  OBVIOUS
<1> USE DEF ConnIInv, ConnTypeOK
<1>1. /\ term = "range" /\ term' = "run" /\ snap = <<>> /\ idx = 1
      /\ UNCHANGED <<closed, list, idx, reg, spawned, ran, early>>
  BY DEF TermRange
<1>2. /\ snap' \in Seq(Handlers) /\ IsInjective(snap')
      /\ \A h \in ToSet(snap') : reg[h] # "none"
  <2>1. CASE snap' = list
    BY <2>1
  <2>2. ASSUME NEW g \in Handlers, reg[g] = "append", snap' = Append(list, g)
        PROVE  /\ snap' \in Seq(Handlers) /\ IsInjective(snap')
               /\ \A h \in ToSet(snap') : reg[h] # "none"
    <3>1. g \notin ToSet(list)
      BY <2>2
    <3>2. snap' \in Seq(Handlers) /\ ToSet(snap') = ToSet(list) \cup {g}
      BY <2>2, AppendQueue
    <3>3. IsInjective(snap')
      BY <2>2, <3>1, AppendIsInjective
    <3>4. QED
      BY <2>2, <3>2, <3>3
  <2>3. snap' = list \/ \E g \in Handlers : reg[g] = "append" /\ snap' = Append(list, g)
    BY DEF TermRange
  <2>4. QED
    BY <2>1, <2>2, <2>3
<1>3. Len(snap') \in Nat /\ idx' <= Len(snap') + 1
  BY <1>1, <1>2
<1>4. ASSUME NEW h \in Handlers PROVE RunsBounded(h)'
  <2>1. FromWalk(h) = 0 /\ FromWalk(h)' = 0 /\ FromSpawn(h)' = FromSpawn(h)
    <3>1. ~Walked(h)
      BY <1>1 DEF Walked
    <3>2. ~Walked(h)'
      BY <1>1 DEF Walked
    <3>3. QED
      BY <1>1, <3>1, <3>2 DEF FromWalk, FromSpawn
  <2>2. QED
    BY <1>1, <2>1 DEF RunsBounded
<1>5. QED
  BY <1>1, <1>2, <1>3, <1>4

LEMMA TermRunInv == ConnIInv /\ TermRun => ConnIInv'
<1> SUFFICES ASSUME ConnIInv, TermRun PROVE ConnIInv'
  OBVIOUS
<1> USE DEF ConnIInv, ConnTypeOK
<1>1. /\ term = "run" /\ idx <= Len(snap) /\ ran' = [ran EXCEPT ![snap[idx]] = @ + 1]
      /\ idx' = idx + 1
      /\ UNCHANGED <<closed, list, term, snap, reg, spawned, early>>
  BY DEF TermRun
<1>2. /\ idx \in 1..Len(snap) /\ DOMAIN snap = 1..Len(snap) /\ Len(snap) \in Nat
      /\ idx < idx' /\ \A i \in 1..Len(snap) : i < idx' <=> i < idx \/ i = idx
  BY <1>1
<1>3. PICK g \in Handlers : g = snap[idx] /\ g \in ToSet(snap) /\ reg[g] # "none"
  BY <1>2, ElementOf
<1>4. ~Walked(g)
  <2>1. \A i \in 1..Len(snap) : snap[i] = snap[idx] => i = idx
    BY <1>2 DEF IsInjective
  <2>2. QED
    BY <1>2, <1>3, <2>1 DEF Walked
<1>5. Walked(g)'
  BY <1>1, <1>2, <1>3 DEF Walked
<1>6. ASSUME NEW h \in Handlers, h # g PROVE Walked(h)' <=> Walked(h)
  <2>1. \A i \in 1..Len(snap) : snap[i] = h => (i < idx' <=> i < idx)
    BY <1>2, <1>3, <1>6
  <2>2. QED
    BY <1>1, <2>1 DEF Walked
<1>7. \A h \in Handlers : ran'[h] = IF h = g THEN ran[h] + 1 ELSE ran[h]
  BY <1>1, <1>3
<1>8. ConnTypeOK'
  BY <1>1, <1>2, <1>3
<1>9. ASSUME NEW h \in Handlers PROVE RunsBounded(h)'
  <2>1. FromSpawn(h)' = FromSpawn(h) /\ FromSpawn(h) \in {0, 1}
    BY <1>1 DEF FromSpawn
  <2>2. CASE h = g
    <3>1. FromWalk(h) = 0 /\ FromWalk(h)' = 1
      BY <1>4, <1>5, <2>2 DEF FromWalk
    <3>2. ran'[h] = ran[h] + 1 /\ ran[h] \in Nat /\ reg[h] # "none"
      BY <1>3, <1>7, <2>2
    <3>3. QED
      BY <1>1, <2>1, <3>1, <3>2 DEF RunsBounded
  <2>3. CASE h # g
    <3>1. FromWalk(h)' = FromWalk(h) /\ ran'[h] = ran[h]
      BY <1>6, <1>7, <2>3 DEF FromWalk
    <3>2. QED
      BY <1>1, <2>1, <3>1 DEF RunsBounded
  <2>4. QED
    BY <2>2, <2>3
<1>10. idx' <= Len(snap') + 1 /\ closed
  BY <1>1, <1>2
<1>11. QED
  BY <1>1, <1>8, <1>9, <1>10

LEMMA TermEndInv == ConnIInv /\ TermEnd => ConnIInv'
<1> SUFFICES ASSUME ConnIInv, TermEnd PROVE ConnIInv'
  OBVIOUS
<1> USE DEF ConnIInv, ConnTypeOK
<1>1. /\ term = "run" /\ list' = <<>> /\ term' = "done"
      /\ UNCHANGED <<closed, snap, idx, reg, spawned, ran, early>>
  BY DEF TermEnd
<1>2. list' \in Seq(Handlers) /\ ToSet(list') = {} /\ IsInjective(list')
  BY <1>1, EmptyQueue DEF IsInjective
<1>3. ASSUME NEW h \in Handlers PROVE RunsBounded(h)'
  BY <1>1 DEF RunsBounded, FromWalk, FromSpawn, Walked
<1>4. QED
  BY <1>1, <1>2, <1>3

LEMMA ConnNextIInv == ConnIInv /\ [ConnNext]_connVars => ConnIInv'
<1> SUFFICES ASSUME ConnIInv, [ConnNext]_connVars PROVE ConnIInv'
  OBVIOUS
<1>1. CASE UNCHANGED connVars
  BY <1>1 DEF connVars, ConnIInv, ConnTypeOK, RunsBounded, FromWalk, FromSpawn, Walked
<1>2. CASE ConnNext
  BY <1>2, OnCloseBeginInv, OnCloseEndInv, RunSpawnedInv, TermBeginInv, TermRangeInv,
     TermRunInv, TermEndInv DEF ConnNext
<1>3. QED
  BY <1>1, <1>2

LEMMA RunsFollow == ConnIInv => HandlerRuns
<1> SUFFICES ASSUME ConnIInv, NEW h \in Handlers
             PROVE  /\ ran[h] > 0 => closed
                    /\ h \in early => ran[h] <= 1
                    /\ ran[h] <= 2
  BY DEF HandlerRuns
<1>1. ran[h] \in Nat /\ FromWalk(h) \in {0, 1} /\ FromSpawn(h) \in {0, 1}
  BY DEF ConnIInv, ConnTypeOK, FromWalk, FromSpawn
<1>2. RunsBounded(h) /\ (~closed => ran[h] = 0)
  BY DEF ConnIInv
<1>3. QED
  BY <1>1, <1>2 DEF RunsBounded

-----------------------------------------------------------------------------
(* The notifiers.                                                          *)

NoteTypes ==
  /\ chan \in [Notifiers -> Seq(Msgs)] /\ \A n \in Notifiers : Len(chan[n]) <= Cap
  /\ chClosed \in [Notifiers -> BOOLEAN] /\ isopen \in [Notifiers -> BOOLEAN]
  /\ cleaned \in [Notifiers -> BOOLEAN]
  /\ closing \in [Notifiers -> {"no", "walk", "other"}]
  /\ loop \in [Notifiers -> {"none", "check", "recv", "write", "end"}]
  /\ hand \in [Notifiers -> Msgs \cup {None}]
  /\ call \in [Msgs -> {"new", "open", "sent", "refused", "full"}]
  /\ target \in [Msgs -> Notifiers \cup {None}]
  /\ cleaning \in [Notifiers -> 0..Cap]
  /\ accepted \in [Notifiers -> Seq(Msgs)] /\ handed \in [Notifiers -> Seq(Msgs)]
  /\ discarded \subseteq Msgs /\ lost \subseteq Msgs
  /\ panicked \in {"no", "send", "close", "write"}
  /\ wire \in {"up", "down", "stuck"}

LineOf(n) == Line(handed[n], hand[n], chan[n])

\* The messages of n: what its channel took was sent to it and to no other, and
\* its loop has a message in hand exactly between receiving and writing it.
FlowInv(n) ==
  /\ ToSet(LineOf(n)) = ToSet(accepted[n]) \ discarded
  /\ InOrderOf(LineOf(n), accepted[n]) /\ IsInjective(accepted[n])
  /\ \A m \in ToSet(accepted[n]) : call[m] = "sent" /\ target[m] = n
  /\ hand[n] # None <=> loop[n] = "write"

\* Outside of Close, which holds mux, a notifier that says it is open is open.
CloseInv(n) == closing[n] = "no" /\ isopen[n] => ~chClosed[n]

CallInv ==
  /\ \A m \in Msgs : call[m] = "open" => target[m] \in Notifiers
  /\ \A m \in discarded : call[m] = "sent"

NoteIInv ==
  /\ NoteTypes /\ CallInv /\ panicked # "close"
  /\ wire = "up" => lost \subseteq Unfit
  /\ \A n \in Notifiers : FlowInv(n) /\ CloseInv(n)

LEMMA MsgsArePositive == 0 \notin Msgs /\ Msgs \subseteq Int /\ None = 0
BY DEF Msgs, None

LEMMA LineOfTyped ==
  ASSUME NoteTypes, NEW n \in Notifiers
  PROVE  /\ handed[n] \in Seq(Msgs) /\ hand[n] \in Msgs \cup {0} /\ chan[n] \in Seq(Msgs)
         /\ accepted[n] \in Seq(Msgs) /\ LineOf(n) \in Seq(Msgs)
<1>1. /\ handed[n] \in Seq(Msgs) /\ hand[n] \in Msgs \cup {0} /\ chan[n] \in Seq(Msgs)
      /\ accepted[n] \in Seq(Msgs)
  BY MsgsArePositive DEF NoteTypes
<1>2. QED
  BY <1>1, MsgsArePositive, LineSteps DEF LineOf

LEMMA LineOfSteps ==
  ASSUME NoteTypes, NEW n \in Notifiers
  PROVE  /\ \A m \in Msgs : Line(handed[n], hand[n], Append(chan[n], m)) = Append(LineOf(n), m)
         /\ hand[n] # 0 => Line(Append(handed[n], hand[n]), 0, chan[n]) = LineOf(n)
         /\ chan[n] # <<>> =>
              /\ Drops(LineOf(n), Line(handed[n], hand[n], Tail(chan[n])), Head(chan[n]))
              /\ Line(handed[n], Head(chan[n]), Tail(chan[n])) = Line(handed[n], 0, chan[n])
<1> DEFINE d == handed[n]
           h == hand[n]
           q == chan[n]
<1>1. d \in Seq(Msgs) /\ h \in Msgs \cup {0} /\ q \in Seq(Msgs) /\ LineOf(n) = Line(d, h, q)
  BY LineOfTyped DEF LineOf
<1> HIDE DEF d, h, q
<1>2. ASSUME NEW m \in Msgs PROVE Line(d, h, Append(q, m)) = Append(Line(d, h, q), m)
  BY <1>1, MsgsArePositive, LinePut, SMTT(30)
<1>3. h # 0 => Line(Append(d, h), 0, q) = Line(d, h, q)
  BY <1>1, MsgsArePositive, LineDone
<1>4. q # <<>> => Drops(Line(d, h, q), Line(d, h, Tail(q)), Head(q))
  BY <1>1, MsgsArePositive, LineSteps
<1>5. q # <<>> => Line(d, Head(q), Tail(q)) = Line(d, 0, q)
  BY <1>1, MsgsArePositive, LineTake
<1>6. QED
  BY <1>1, <1>2, <1>3, <1>4, <1>5 DEF d, h, q

LEMMA NoteInitIInv == Init => NoteIInv
<1> SUFFICES ASSUME Init PROVE NoteIInv
  OBVIOUS
<1>1. /\ chan \in [Notifiers -> Seq(Msgs)] /\ accepted \in [Notifiers -> Seq(Msgs)]
      /\ handed \in [Notifiers -> Seq(Msgs)]
      /\ \A n \in Notifiers : Len(chan[n]) = 0
  BY DEF Init
<1>2. /\ chClosed \in [Notifiers -> BOOLEAN] /\ isopen \in [Notifiers -> BOOLEAN]
      /\ cleaned \in [Notifiers -> BOOLEAN]
  BY DEF Init
<1>3. /\ closing \in [Notifiers -> {"no", "walk", "other"}]
      /\ loop \in [Notifiers -> {"none", "check", "recv", "write", "end"}]
      /\ call \in [Msgs -> {"new", "open", "sent", "refused", "full"}]
      /\ panicked = "no" /\ discarded = {} /\ lost = {} /\ wire = "up"
  BY DEF Init
<1>4. /\ hand \in [Notifiers -> Msgs \cup {None}] /\ target \in [Msgs -> Notifiers \cup {None}]
      /\ cleaning \in [Notifiers -> 0..Cap]
  BY CapAssumption DEF Init
<1>5. NoteTypes
  BY <1>1, <1>2, <1>3, <1>4, CapAssumption DEF NoteTypes
<1>6. ASSUME NEW n \in Notifiers PROVE FlowInv(n) /\ CloseInv(n)
  <2>1. /\ handed[n] = <<>> /\ chan[n] = <<>> /\ hand[n] = None /\ accepted[n] = <<>>
        /\ loop[n] = "none" /\ chClosed[n] = FALSE
    BY DEF Init
  <2>2. LineOf(n) = <<>>
    <3>1. LineOf(n) = <<>> \o <<>> \o <<>>
      BY <2>1 DEF LineOf, Line, None
    <3>2. <<>> \o <<>> \o <<>> = <<>>
      OBVIOUS
    <3>3. QED
      BY <3>1, <3>2
  <2>3. InOrderOf(<<>>, <<>>) /\ IsInjective(<<>>)
    BY DEF InOrderOf, IsInjective
  <2>4. QED
    BY <1>3, <2>1, <2>2, <2>3, EmptyQueue DEF FlowInv, CloseInv
<1>7. CallInv
  BY <1>3 DEF CallInv, Init
<1>8. QED
  BY <1>3, <1>5, <1>6, <1>7 DEF NoteIInv

LEMMA NoteStays ==
  ASSUME NoteIInv, UNCHANGED noteVars
  PROVE  NoteIInv'
BY DEF NoteIInv, NoteTypes, CallInv, FlowInv, CloseInv, LineOf, noteVars

\* Only one caller at a time is between close(sending) and isopen = false, and
\* it finds the channel open.
LEMMA CloseBeginInv ==
  ASSUME NoteIInv, NEW n \in Notifiers, NEW who \in {"walk", "other"}, CloseBegin(n, who)
  PROVE  NoteIInv'
<1> USE DEF NoteIInv
<1>1. UNCHANGED <<chan, isopen, loop, hand, call, target, cleaning, cleaned,
                 accepted, handed, lost, discarded, wire>> /\ closing[n] = "no"
  BY DEF CloseBegin
<1>2. ASSUME isopen[n] PROVE NoteIInv'
  <2>1. /\ chClosed' = [chClosed EXCEPT ![n] = TRUE] /\ closing' = [closing EXCEPT ![n] = who]
        /\ panicked' = panicked
    BY <1>1, <1>2 DEF CloseBegin, CloseInv
  <2>2. NoteTypes'
    BY <1>1, <2>1 DEF NoteTypes
  <2>3. ASSUME NEW k \in Notifiers PROVE FlowInv(k)' /\ CloseInv(k)'
    <3>1. FlowInv(k)'
      BY <1>1 DEF FlowInv, LineOf
    <3>2. k # n => chClosed'[k] = chClosed[k] /\ closing'[k] = closing[k]
      BY <2>1 DEF NoteTypes
    <3>3. closing'[n] = who
      BY <2>1 DEF NoteTypes
    <3>4. QED
      BY <1>1, <3>1, <3>2, <3>3 DEF CloseInv
  <2>4. QED
    BY <1>1, <2>1, <2>2, <2>3 DEF CallInv
<1>3. ASSUME ~isopen[n] PROVE NoteIInv'
  <2>1. UNCHANGED noteVars
    BY <1>1, <1>3 DEF CloseBegin, noteVars
  <2>2. QED
    BY <2>1, NoteStays
<1>4. QED
  BY <1>2, <1>3

LEMMA CloseEndInv ==
  ASSUME NoteIInv, NEW n \in Notifiers, CloseEnd(n)
  PROVE  NoteIInv'
<1> USE DEF NoteIInv
<1>1. /\ isopen' = [isopen EXCEPT ![n] = FALSE] /\ closing' = [closing EXCEPT ![n] = "no"]
      /\ UNCHANGED <<chan, chClosed, loop, hand, call, target, cleaning, cleaned,
                     accepted, handed, lost, discarded, panicked, wire>>
  BY DEF CloseEnd, ClearOpen
<1>2. NoteTypes'
  BY <1>1 DEF NoteTypes
<1>3. ASSUME NEW k \in Notifiers PROVE FlowInv(k)' /\ CloseInv(k)'
  <2>1. FlowInv(k)'
    BY <1>1 DEF FlowInv, LineOf
  <2>2. k # n => isopen'[k] = isopen[k] /\ closing'[k] = closing[k]
    BY <1>1 DEF NoteTypes
  <2>3. ~isopen'[n]
    BY <1>1 DEF NoteTypes
  <2>4. QED
    BY <1>1, <2>1, <2>2, <2>3 DEF CloseInv
<1>4. QED
  BY <1>1, <1>2, <1>3 DEF CallInv

\* The loop: what it takes and writes stays on the line, in its place.
LEMMA LoopInv ==
  ASSUME NoteIInv, NEW n \in Notifiers, LoopStep(n)
  PROVE  NoteIInv'
<1> USE DEF NoteIInv
<1>1. /\ UNCHANGED <<chClosed, isopen, closing, call, target, cleaning, cleaned,
                     accepted, discarded, wire>>
      /\ panicked' \in {panicked, "write"}
      /\ lost' \in {lost, lost \cup {hand[n]}}
      /\ wire = "up" => lost' = lost \/ hand[n] \in Unfit
      /\ lost' # lost => loop[n] = "write"
  BY DEF LoopStep, StartLoop, LoopCheck, LoopRecv, LoopWrite
<1>0. /\ lost' \subseteq Msgs /\ (wire' = "up" => lost' \subseteq Unfit)
      /\ panicked' \in {"no", "send", "write"}
  <2>1. loop[n] = "write" => hand[n] \in Msgs
    BY MsgsArePositive DEF NoteTypes, FlowInv
  <2>2. QED
    BY <1>1, <2>1 DEF NoteTypes
<1>2. /\ NoteTypes'
      /\ \A k \in Notifiers : LineOf(k)' = LineOf(k) /\ (hand'[k] # None <=> loop'[k] = "write")
  <2>1. CASE StartLoop(n) \/ LoopCheck(n)
    <3>1. /\ \E l \in {"check", "recv", "end"} : loop' = [loop EXCEPT ![n] = l]
          /\ loop[n] # "write" /\ UNCHANGED <<hand, chan, handed>>
      BY <2>1 DEF StartLoop, LoopCheck
    <3>2. NoteTypes'
      BY <1>0, <1>1, <3>1 DEF NoteTypes
    <3>3. \A k \in Notifiers : loop'[k] = "write" <=> loop[k] = "write"
      BY <3>1 DEF NoteTypes
    <3>4. QED
      BY <3>1, <3>2, <3>3 DEF LineOf, FlowInv
  <2>2. CASE LoopRecv(n)
    <3>1. CASE /\ chan[n] # <<>> /\ hand' = [hand EXCEPT ![n] = Head(chan[n])]
               /\ chan' = [chan EXCEPT ![n] = Tail(@)] /\ loop' = [loop EXCEPT ![n] = "write"]
      <4>1. loop[n] = "recv" /\ handed' = handed
        BY <2>2 DEF LoopRecv
      <4>2. /\ Head(chan[n]) \in Msgs /\ Tail(chan[n]) \in Seq(Msgs)
            /\ Len(Tail(chan[n])) <= Cap /\ hand[n] = 0
        <5>1. chan[n] \in Seq(Msgs) /\ Len(chan[n]) <= Cap /\ hand[n] = 0
          BY <4>1, MsgsArePositive DEF NoteTypes, FlowInv
        <5>2. QED
          BY <3>1, <5>1, QueueSteps, MsgsArePositive, CapAssumption
      <4>3. \A k \in Notifiers :
              /\ hand'[k] = IF k = n THEN Head(chan[n]) ELSE hand[k]
              /\ chan'[k] = IF k = n THEN Tail(chan[n]) ELSE chan[k]
              /\ loop'[k] = IF k = n THEN "write" ELSE loop[k]
        BY <3>1 DEF NoteTypes
      <4>4. NoteTypes'
        BY <1>0, <1>1, <3>1, <4>1, <4>2, <4>3 DEF NoteTypes
      <4>5. Line(handed[n], Head(chan[n]), Tail(chan[n])) = LineOf(n)
        BY <3>1, <4>2, LineOfSteps DEF LineOf
      <4>6. \A k \in Notifiers : LineOf(k)' = LineOf(k)
        BY <4>1, <4>3, <4>5 DEF LineOf
      <4>7. \A k \in Notifiers : hand'[k] # None <=> loop'[k] = "write"
        BY <4>2, <4>3, MsgsArePositive DEF FlowInv
      <4>8. QED
        BY <4>4, <4>6, <4>7
    <3>2. CASE loop' = [loop EXCEPT ![n] = "end"] /\ UNCHANGED <<hand, chan>>
      <4>1. loop[n] = "recv" /\ handed' = handed
        BY <2>2 DEF LoopRecv
      <4>2. NoteTypes'
        BY <1>0, <1>1, <3>2, <4>1 DEF NoteTypes
      <4>3. \A k \in Notifiers : loop'[k] = "write" <=> loop[k] = "write"
        BY <3>2, <4>1 DEF NoteTypes
      <4>4. QED
        BY <3>2, <4>1, <4>2, <4>3 DEF LineOf, FlowInv
    <3>3. QED
      BY <2>2, <3>1, <3>2 DEF LoopRecv
  <2>3. CASE LoopWrite(n) /\ hand' # hand
    <3>1. /\ loop[n] = "write" /\ handed' = [handed EXCEPT ![n] = Append(@, hand[n])]
          /\ hand' = [hand EXCEPT ![n] = None] /\ loop' = [loop EXCEPT ![n] = "check"]
          /\ UNCHANGED chan
      BY <2>3 DEF LoopWrite, AfterWrite
    <3>2. hand[n] \in Msgs /\ hand[n] # 0 /\ Append(handed[n], hand[n]) \in Seq(Msgs)
      BY <3>1, MsgsArePositive DEF NoteTypes, FlowInv
    <3>3. \A k \in Notifiers :
            /\ hand'[k] = IF k = n THEN 0 ELSE hand[k]
            /\ handed'[k] = IF k = n THEN Append(handed[n], hand[n]) ELSE handed[k]
            /\ loop'[k] = IF k = n THEN "check" ELSE loop[k]
      BY <3>1, MsgsArePositive DEF NoteTypes
    <3>4. NoteTypes'
      BY <1>0, <1>1, <3>1, <3>2, <3>3, MsgsArePositive DEF NoteTypes
    <3>5. Line(Append(handed[n], hand[n]), 0, chan[n]) = LineOf(n)
      BY <3>2, LineOfSteps
    <3>6. \A k \in Notifiers : LineOf(k)' = LineOf(k)
      BY <3>1, <3>3, <3>5 DEF LineOf
    <3>7. \A k \in Notifiers : hand'[k] # None <=> loop'[k] = "write"
      BY <3>3, MsgsArePositive DEF FlowInv
    <3>8. QED
      BY <3>4, <3>6, <3>7
  <2>5. CASE LoopWrite(n) /\ hand' = hand
    <3>1. loop[n] = "write" /\ hand[n] # None /\ hand[n] \in Msgs \cup {None}
      BY <2>5 DEF LoopWrite, FlowInv, NoteTypes
    <3>2. hand' # [hand EXCEPT ![n] = None]
      BY <2>5, <3>1 DEF NoteTypes
    <3>3. UNCHANGED <<chan, handed, loop, hand>>
      BY <2>5, <3>2 DEF LoopWrite
    <3>4. NoteTypes'
      BY <1>0, <1>1, <3>3 DEF NoteTypes
    <3>5. QED
      BY <3>3, <3>4 DEF LineOf, FlowInv
  <2>4. QED
    BY <2>1, <2>2, <2>3, <2>5 DEF LoopStep
<1>3. ASSUME NEW k \in Notifiers PROVE FlowInv(k)' /\ CloseInv(k)'
  BY <1>1, <1>2 DEF FlowInv, CloseInv
<1>4. QED
  BY <1>0, <1>1, <1>2, <1>3 DEF CallInv

LEMMA NotifyCheckInv ==
  ASSUME NoteIInv, NEW m \in Msgs, NEW n \in Notifiers, NotifyCheck(m, n)
  PROVE  NoteIInv'
<1> USE DEF NoteIInv
<1>1. /\ call[m] = "new" /\ target' = [target EXCEPT ![m] = n]
      /\ \E c \in {"open", "refused"} : call' = [call EXCEPT ![m] = c]
      /\ UNCHANGED <<chan, chClosed, isopen, closing, loop, hand, cleaning, cleaned,
                     accepted, handed, lost, discarded, panicked, wire>>
  BY DEF NotifyCheck
<1>2. \A k \in Msgs : /\ k # m => call'[k] = call[k] /\ target'[k] = target[k]
                      /\ target'[m] = n
  BY <1>1 DEF NoteTypes
<1>3. NoteTypes'
  BY <1>1 DEF NoteTypes
<1>4. CallInv'
  BY <1>1, <1>2 DEF CallInv, NoteTypes
<1>5. ASSUME NEW k \in Notifiers PROVE FlowInv(k)' /\ CloseInv(k)'
  <2>1. ToSet(accepted[k]) \subseteq Msgs
    BY LineOfTyped, ElementOf
  <2>2. LineOf(k)' = LineOf(k)
    BY <1>1 DEF LineOf
  <2>3. \A x \in ToSet(accepted[k]) : call'[x] = "sent" /\ target'[x] = k
    BY <1>1, <1>2, <2>1 DEF FlowInv
  <2>4. QED
    BY <1>1, <2>2, <2>3 DEF FlowInv, CloseInv
<1>6. QED
  BY <1>1, <1>3, <1>4, <1>5

\* A message the channel takes is new to every notifier.
LEMMA NotifySendInv ==
  ASSUME NoteIInv, NEW m \in Msgs, NotifySend(m)
  PROVE  NoteIInv'
<1> USE DEF NoteIInv
<1>1. PICK n \in Notifiers :
      /\ n = target[m] /\ call[m] = "open" /\ m \notin discarded
      /\ UNCHANGED <<chClosed, isopen, closing, loop, hand, target,
                     cleaning, cleaned, handed, lost, discarded, wire>>
  BY DEF NotifySend, CallInv
<1>2. ASSUME NEW k \in Notifiers
      PROVE  /\ ToSet(accepted[k]) \subseteq Msgs /\ m \notin ToSet(accepted[k])
             /\ ToSet(LineOf(k)) \subseteq ToSet(accepted[k])
  <2>1. ToSet(accepted[k]) \subseteq Msgs
    BY LineOfTyped, ElementOf
  <2>2. QED
    BY <1>1, <2>1 DEF FlowInv
\* The process ends, or the channel is full: nothing else happens.
<1>3. CASE /\ UNCHANGED <<chan, accepted>> /\ panicked' \in {panicked, "send"}
           /\ call' \in {call, [call EXCEPT ![m] = "full"]}
  <2>1. NoteTypes'
    BY <1>1, <1>3 DEF NoteTypes
  <2>2. \A x \in Msgs : call'[x] = call[x] \/ (x = m /\ call'[x] = "full")
    BY <1>3 DEF NoteTypes
  <2>3. CallInv'
    BY <1>1, <2>2 DEF CallInv, NoteTypes
  <2>4. ASSUME NEW k \in Notifiers PROVE FlowInv(k)' /\ CloseInv(k)'
    <3>1. LineOf(k)' = LineOf(k)
      BY <1>1, <1>3 DEF LineOf
    <3>2. \A x \in ToSet(accepted[k]) : call'[x] = "sent" /\ target[x] = k
      BY <1>2, <2>2 DEF FlowInv
    <3>3. QED
      BY <1>1, <1>3, <3>1, <3>2 DEF FlowInv, CloseInv
  <2>5. QED
    BY <1>1, <1>3, <2>1, <2>3, <2>4
<1>4. CASE /\ HasRoom(n) /\ Buffer(n, m) /\ UNCHANGED panicked
           /\ accepted' = [accepted EXCEPT ![n] = Append(@, m)]
           /\ call' = [call EXCEPT ![m] = "sent"]
  <2>1. \A k \in Notifiers : /\ chan'[k] = IF k = n THEN Append(chan[n], m) ELSE chan[k]
                             /\ accepted'[k] = IF k = n THEN Append(accepted[n], m) ELSE accepted[k]
    BY <1>4 DEF Buffer, NoteTypes
  <2>2. \A x \in Msgs : call'[x] = IF x = m THEN "sent" ELSE call[x]
    BY <1>4 DEF NoteTypes
  <2>3. /\ Append(chan[n], m) \in Seq(Msgs) /\ Len(Append(chan[n], m)) <= Cap
        /\ Append(accepted[n], m) \in Seq(Msgs)
        /\ ToSet(Append(accepted[n], m)) = ToSet(accepted[n]) \cup {m}
    <3>1. chan[n] \in Seq(Msgs) /\ accepted[n] \in Seq(Msgs) /\ Len(chan[n]) < Cap
      BY <1>1, <1>4, LineOfTyped DEF HasRoom
    <3>2. Len(Append(chan[n], m)) = Len(chan[n]) + 1 /\ Len(chan[n]) \in Nat
      BY <3>1
    <3>3. QED
      BY <3>1, <3>2, AppendQueue, CapAssumption
  <2>4. NoteTypes'
    BY <1>1, <1>4, <2>1, <2>3 DEF NoteTypes, Buffer
  <2>5. CallInv'
    BY <1>1, <2>2 DEF CallInv, NoteTypes
  <2>6. LineOf(n)' = Append(LineOf(n), m)
    <3>1. Line(handed[n], hand[n], Append(chan[n], m)) = Append(LineOf(n), m)
      BY <1>1, LineOfSteps
    <3>2. QED
      BY <1>1, <2>1, <3>1 DEF LineOf
  <2>7. ToSet(LineOf(n)') = ToSet(LineOf(n)) \cup {m}
    BY <1>1, <2>6, LineOfTyped, AppendQueue
  <2>8. InOrderOf(LineOf(n)', Append(accepted[n], m))
    <3>1. /\ LineOf(n) \in Seq(Msgs) /\ accepted[n] \in Seq(Msgs)
          /\ InOrderOf(LineOf(n), accepted[n]) /\ ToSet(LineOf(n)) \subseteq ToSet(accepted[n])
      BY <1>1, <1>2, LineOfTyped DEF FlowInv
    <3>2. InOrderOf(Append(LineOf(n), m), Append(accepted[n], m))
      BY <3>1, PutInOrder
    <3>3. QED
      BY <2>6, <3>2
  <2>9. IsInjective(Append(accepted[n], m))
    BY <1>1, <1>2, LineOfTyped, AppendIsInjective DEF FlowInv
  <2>10. FlowInv(n)'
    <3>1. accepted'[n] = Append(accepted[n], m) /\ target' = target
      BY <1>1, <2>1
    <3>2. ToSet(LineOf(n)') = ToSet(Append(accepted[n], m)) \ discarded
      BY <1>1, <2>3, <2>7 DEF FlowInv
    <3>3. \A x \in ToSet(Append(accepted[n], m)) : call'[x] = "sent" /\ target[x] = n
      BY <1>1, <1>2, <2>2, <2>3 DEF FlowInv
    <3>4. hand'[n] # None <=> loop'[n] = "write"
      BY <1>1 DEF FlowInv
    <3>5. QED
      BY <1>1, <2>8, <2>9, <3>1, <3>2, <3>3, <3>4 DEF FlowInv
  <2>11. ASSUME NEW k \in Notifiers, k # n PROVE FlowInv(k)'
    <3>1. LineOf(k)' = LineOf(k) /\ accepted'[k] = accepted[k]
      BY <1>1, <2>1, <2>11 DEF LineOf
    <3>2. \A x \in ToSet(accepted[k]) : call'[x] = "sent" /\ target[x] = k
      BY <1>2, <2>2 DEF FlowInv
    <3>3. QED
      BY <1>1, <3>1, <3>2 DEF FlowInv
  <2>12. \A k \in Notifiers : CloseInv(k)'
    BY <1>1 DEF CloseInv
  <2>13. \A k \in Notifiers : FlowInv(k)'
    BY <2>10, <2>11
  <2>14. panicked' # "close"
    BY <1>4
  <2>15. QED
    BY <1>1, <2>4, <2>5, <2>12, <2>13, <2>14
<1>5. QED
  BY <1>1, <1>3, <1>4 DEF NotifySend

\* Clean drops what the channel took from the line, the oldest first.
LEMMA CleanInv ==
  ASSUME NoteIInv, NEW n \in Notifiers, CleanBegin(n) \/ CleanStep(n)
  PROVE  NoteIInv'
<1> USE DEF NoteIInv
<1>1. UNCHANGED <<chClosed, isopen, closing, loop, hand, call, target, accepted, handed, lost, panicked,
                wire>>
  BY DEF CleanBegin, CleanStep
<1>2. CASE UNCHANGED <<chan, discarded>>
  <2>1. /\ cleaned' \in {cleaned, [cleaned EXCEPT ![n] = TRUE]}
        /\ \E c \in 0..Cap : cleaning' = [cleaning EXCEPT ![n] = c]
    <3>1. chan[n] \in Seq(Msgs) /\ Len(chan[n]) \in 0..Cap /\ 0 \in 0..Cap
      BY LineOfTyped, CapAssumption DEF NoteTypes
    <3>2. CASE CleanBegin(n)
      BY <3>1, <3>2 DEF CleanBegin
    <3>3. CASE CleanStep(n)
      <4>1. cleaned' = cleaned
        BY <3>3 DEF CleanStep
      <4>2. CASE cleaning' = [cleaning EXCEPT ![n] = 0]
        BY <3>1, <4>1, <4>2
      <4>3. CASE cleaning' = [cleaning EXCEPT ![n] = @ - 1] /\ cleaning[n] > 1
        <5>1. cleaning[n] - 1 \in 0..Cap
          BY <4>3, CapAssumption DEF NoteTypes
        <5>2. QED
          BY <4>1, <4>3, <5>1
      <4>4. QED
        BY <3>3, <4>2, <4>3 DEF CleanStep
    <3>4. QED
      BY <3>2, <3>3
  <2>2. NoteTypes'
    <3>1. cleaned' \in [Notifiers -> BOOLEAN]
      BY <2>1 DEF NoteTypes
    <3>2. cleaning' \in [Notifiers -> 0..Cap]
      BY <2>1 DEF NoteTypes
    <3>3. QED
      BY <1>1, <1>2, <3>1, <3>2 DEF NoteTypes
  <2>3. ASSUME NEW k \in Notifiers PROVE FlowInv(k)' /\ CloseInv(k)'
    BY <1>1, <1>2 DEF FlowInv, CloseInv, LineOf
  <2>4. QED
    BY <1>1, <1>2, <2>2, <2>3 DEF CallInv
<1>3. CASE /\ chan[n] # <<>> /\ cleaning[n] > 1 /\ UNCHANGED cleaned
           /\ discarded' = discarded \cup {Head(chan[n])} /\ chan' = [chan EXCEPT ![n] = Tail(@)]
           /\ cleaning' = [cleaning EXCEPT ![n] = @ - 1]
  <2> DEFINE x == Head(chan[n])
  <2>1. /\ Tail(chan[n]) \in Seq(Msgs) /\ Len(Tail(chan[n])) <= Cap /\ x \in Msgs
    <3>1. chan[n] \in Seq(Msgs) /\ Len(chan[n]) <= Cap
      BY LineOfTyped DEF NoteTypes
    <3>2. QED
      BY <1>3, <3>1, QueueSteps, MsgsArePositive, CapAssumption
  <2>2. \A k \in Notifiers : chan'[k] = IF k = n THEN Tail(chan[n]) ELSE chan[k]
    BY <1>3 DEF NoteTypes
  <2>3. NoteTypes'
    <3>1. cleaning[n] - 1 \in 0..Cap
      BY <1>3, CapAssumption DEF NoteTypes
    <3>2. QED
      BY <1>1, <1>3, <2>1, <2>2, <3>1 DEF NoteTypes
  <2>4. LineOf(n)' = Line(handed[n], hand[n], Tail(chan[n]))
    BY <1>1, <2>2 DEF LineOf
  <2>5. LineOf(n)' \in Seq(Msgs) /\ LineOf(n) \in Seq(Msgs) /\ accepted[n] \in Seq(Msgs)
    <3>1. Line(handed[n], hand[n], Tail(chan[n])) \in Seq(Msgs)
      BY <2>1, LineOfTyped, MsgsArePositive, LineShape
    <3>2. QED
      BY <2>4, <3>1, LineOfTyped
  <2> DEFINE l == LineOf(n)
             m == Line(handed[n], hand[n], Tail(chan[n]))
  <2>6. /\ l \in Seq(Msgs) /\ m \in Seq(Msgs) /\ Drops(l, m, x)
        /\ InOrderOf(l, accepted[n]) /\ IsInjective(accepted[n])
        /\ ToSet(l) = ToSet(accepted[n]) \ discarded
    BY <1>3, <2>4, <2>5, LineOfSteps DEF FlowInv
  <2> HIDE DEF l, m, x
  <2>7. IsInjective(l)
    BY <2>5, <2>6, InOrderIsInjective
  <2>8. x \in ToSet(l) /\ ToSet(m) = ToSet(l) \ {x}
    BY <2>6, <2>7, DropKeeps, MsgsArePositive, ZenonT(30)
  <2>9. InOrderOf(m, accepted[n])
    BY <2>6, DropInOrder
  <2>10. x \in ToSet(accepted[n]) /\ discarded' = discarded \cup {x} /\ LineOf(n)' = m
    BY <1>3, <2>4, <2>6, <2>8 DEF x, m
  <2>11. call[x] = "sent" /\ target[x] = n
    BY <2>10 DEF FlowInv
  <2>12. CallInv'
    BY <1>1, <2>10, <2>11 DEF CallInv
  <2>13. FlowInv(n)'
    <3>1. ToSet(m) = ToSet(accepted[n]) \ discarded'
      BY <2>6, <2>8, <2>10
    <3>2. QED
      BY <1>1, <2>9, <2>10, <3>1 DEF FlowInv
  <2>14. ASSUME NEW k \in Notifiers, k # n PROVE FlowInv(k)'
    <3>1. LineOf(k)' = LineOf(k)
      BY <1>1, <2>2, <2>14 DEF LineOf
    <3>2. x \notin ToSet(accepted[k])
      BY <2>11, <2>14 DEF FlowInv
    <3>3. ToSet(accepted[k]) \ discarded' = ToSet(accepted[k]) \ discarded
      BY <2>10, <3>2
    <3>4. QED
      BY <1>1, <3>1, <3>3 DEF FlowInv
  <2>15. \A k \in Notifiers : CloseInv(k)'
    BY <1>1 DEF CloseInv
  <2>16. QED
    BY <1>1, <2>3, <2>12, <2>13, <2>14, <2>15
<1>4. QED
  BY <1>2, <1>3 DEF CleanBegin, CleanStep

\* Once the wire is not up any message may be lost.
LEMMA WireFailsInv ==
  ASSUME NoteIInv, WireFails
  PROVE  NoteIInv'
<1>1. /\ UNCHANGED <<chan, chClosed, isopen, closing, loop, hand, call, target, cleaning,
                     cleaned, accepted, handed, lost, discarded, panicked>>
      /\ wire' \in {"down", "stuck"}
  BY DEF WireFails
<1>2. NoteTypes' /\ CallInv'
  BY <1>1 DEF NoteIInv, NoteTypes, CallInv
<1>3. \A n \in Notifiers : FlowInv(n)' /\ CloseInv(n)'
  BY <1>1 DEF NoteIInv, FlowInv, CloseInv, LineOf
<1>4. QED
  BY <1>1, <1>2, <1>3 DEF NoteIInv

-----------------------------------------------------------------------------
(* The composition.                                                        *)

LEMMA HandleInv ==
  ASSUME NoteIInv, NEW h, NEW who \in {"walk", "other"}, Handle(h, who)
  PROVE  NoteIInv'
BY CloseBeginInv, NoteStays DEF Handle

LEMMA NotifierNext ==
  ASSUME ConnIInv, NoteIInv, [Next]_vars
  PROVE  ConnIInv' /\ NoteIInv'
<1>1. [ConnNext]_connVars
  BY DEF Next, vars, Terminating, WireFails, Register, RunHandler, EndClose, AppClose, LoopStep,
     StartLoop, LoopCheck, LoopRecv, LoopWrite, CleanBegin, CleanStep, NotifyCheck,
     NotifySend, ConnNext
<1>2. ConnIInv'
  BY <1>1, ConnNextIInv
<1>3. NoteIInv'
  <2>1. CASE UNCHANGED vars
    BY <2>1, NoteStays DEF vars
  <2>2. CASE Terminating
    BY <2>2, NoteStays, HandleInv DEF Terminating
  <2>9. CASE WireFails
    BY <2>9, WireFailsInv
  <2>3. ASSUME NEW h \in Handlers, Register(h) \/ RunHandler(h) PROVE NoteIInv'
    BY <2>3, NoteStays, HandleInv DEF Register, RunHandler
  <2>4. ASSUME NEW n \in Notifiers, EndClose(n) \/ AppClose(n) \/ LoopStep(n)
        PROVE  NoteIInv'
    BY <2>4, CloseEndInv, CloseBeginInv, LoopInv DEF EndClose, AppClose
  <2>5. ASSUME NEW n \in Notifiers, CleanBegin(n) \/ CleanStep(n) PROVE NoteIInv'
    BY <2>5, CleanInv
  <2>6. ASSUME NEW n \in Notifiers, NEW m \in Msgs, NotifyCheck(m, n) PROVE NoteIInv'
    BY <2>6, NotifyCheckInv
  <2>7. ASSUME NEW m \in Msgs, NotifySend(m) PROVE NoteIInv'
    BY <2>7, NotifySendInv
  <2>8. QED
    BY <2>1, <2>2, <2>3, <2>4, <2>5, <2>6, <2>7, <2>9 DEF Next
<1>4. QED
  BY <1>2, <1>3

LEMMA NotifierInvariant == Spec => [](ConnIInv /\ NoteIInv)
<1>1. Init => ConnIInv /\ NoteIInv
  BY ConnInitIInv, NoteInitIInv DEF Init
<1>2. ConnIInv /\ NoteIInv /\ [Next]_vars => (ConnIInv /\ NoteIInv)'
  BY NotifierNext
<1>3. QED
  BY <1>1, <1>2, PTL DEF Spec

-----------------------------------------------------------------------------
(* The theorems.                                                           *)

\* The state of the connection and its notifiers stays of its type: a channel
\* never holds more than its capacity (NewNotifier, Notify, Clean).
THEOREM NotifierTypeCorrect == Spec => []TypeOK
<1>1. ConnIInv /\ NoteIInv => TypeOK
  BY DEF ConnIInv, NoteIInv, NoteTypes, TypeOK
<1>2. QED
  BY <1>1, NotifierInvariant, PTL

\* However OnClose and the termination interleave, a handler runs only once
\* the connection is closed, at most twice, and at most once when it was
\* registered before (Conn.OnClose, Conn.ternimating).
THEOREM HandlersRun == Spec => []HandlerRuns
<1>1. QED
  BY RunsFollow, NotifierInvariant, PTL

\* Nothing that Notify accepted is missing, duplicated or reordered on its way to
\* Conn.Notify, whoever closes or cleans the notifier meanwhile, and while the
\* connection is up Conn.Notify writes all but what json refuses (Notify, loop,
\* Clean).
THEOREM NotificationsConserved == Spec => []Conserved
<1>1. NoteIInv => Conserved
  BY DEF NoteIInv, FlowInv, LineOf, Conserved
<1>2. QED
  BY <1>1, NotifierInvariant, PTL

\* The channel of a notifier is never closed twice, however many goroutines
\* call Close at once (Notifier.Close).
THEOREM ChannelClosedOnce == Spec => []ClosedOnce
<1>1. NoteIInv => ClosedOnce
  BY DEF NoteIInv, ClosedOnce
<1>2. QED
  BY <1>1, NotifierInvariant, PTL
=============================================================================
