----------------------------- MODULE SharedKvs ------------------------------
(***************************************************************************)
(* Loggers derived from loggers: Helper.With and WithDDOtelTrace           *)
(* (src/log/kratos/helper.go) and BaseCore.With (src/log/hook/core.go).    *)
(* Both append to the slice of the logger they derive from, and the        *)
(* helper's logging methods append the message to it.  Go's append writes  *)
(* into the array of its argument when there is room, so two loggers, or   *)
(* two log calls, made from one logger may own the same slots.  A With may *)
(* be given any number of values.                                          *)
(*                                                                         *)
(* A value appended is the number of the append that wrote it.  A With of  *)
(* nothing makes a logger with its parent's slice, so it is left out: such *)
(* a logger is its parent here.                                            *)
(***************************************************************************)
EXTENDS Integers, Sequences

CONSTANTS
  LogCallers,   \* goroutines that log
  Widths,       \* how many values or fields a With may be given
  MaxAppends    \* bound: loggers derived and messages logged

\* A slice of up to 16 values of a helper is allocated exactly (AtOnce below).
ASSUME SharedKvsAssumption == MaxAppends \in Nat /\ Widths \subseteq 1..16

VARIABLES
  kvArrays,   \* the backing arrays, each a sequence of its capacity
  kvLoggers,  \* the loggers: array (0 for nil), how many With deep, and
              \* history: their true values, and alone: no With on the way to
              \* it put a value in an array that another logger has
  kvCalls,    \* kvCalls[g]: the slice handed to Log and what it should hold
  kvGarbled,  \* history: the loggers whose log calls read values not their own
  kvNext,     \* the number of the next append
  kvKind      \* "helper" or "core"

kvVars == <<kvArrays, kvLoggers, kvCalls, kvGarbled, kvNext, kvKind>>

NoLogCall == [logger |-> 0, arr |-> 0, want |-> <<>>]

SharedKvsTypeOK ==
  /\ kvKind \in {"helper", "core"}
  /\ kvNext \in 1..(MaxAppends + 1)
  /\ \A i \in DOMAIN kvLoggers :
       /\ kvLoggers[i].arr \in 0..Len(kvArrays)
       /\ kvLoggers[i].arr # 0 => Len(kvLoggers[i].want) <= Len(kvArrays[kvLoggers[i].arr])
  /\ kvGarbled \subseteq DOMAIN kvLoggers

\* A fresh array of capacity n that starts with s.
Fresh(s, n) == [i \in 1..n |-> IF i <= Len(s) THEN s[i] ELSE 0]

CapOf(arrays, arr) == IF arr = 0 THEN 0 ELSE Len(arrays[arr])
Content(arr, n) == IF arr = 0 THEN <<>> ELSE SubSeq(kvArrays[arr], 1, n)

\* The capacities append gives a slice of capacity cap that must hold need.
\* With hands append all its values at once: twice as much or what it needs,
\* rounded to what the allocator has for 16-byte values, up to 32 of them.
AtOnce(cap, need) ==
  LET least == IF need > 2 * cap THEN need ELSE 2 * cap
  IN  IF least <= 16 THEN least ELSE 2 * ((least + 1) \div 2)
\* addFields appends one field after the other, and the capacity doubles.
Doublings(cap, need) ==
  {c \in need..(2 * need) : \E i \in 0..need : c = (IF cap = 0 THEN 1 ELSE cap) * 2^i}
Rooms(cap, need) ==
  IF kvKind = "helper" THEN {AtOnce(cap, need)} ELSE Doublings(cap, need)

\* How many of k values go into the array at hand: all or none of those handed
\* over at once, and as many as fit of those appended one by one.
PutInPlace(cap, n, k) ==
  IF n + k <= cap THEN k ELSE IF kvKind = "helper" THEN 0 ELSE cap - n

\* The arrays when u times v is in arr behind its first n.
Written(arrays, arr, n, v, u) ==
  [a \in DOMAIN arrays |->
     [i \in DOMAIN arrays[a] |->
        IF a = arr /\ i \in (n + 1)..(n + u) THEN v ELSE arrays[a][i]]]

\* append(s, v, ..., v) with k elements, u of them in place, and room for c when
\* it moves; the result is the array the slice ends up in.
AppendTo(arrays, arr, n, v, k, u, c) ==
  LET vals == [i \in 1..k |-> v]
      old  == IF arr = 0 THEN <<>> ELSE SubSeq(arrays[arr], 1, n)
      written == Written(arrays, arr, n, v, u)
  IN  IF u = k
      THEN [arrays |-> written, arr |-> arr]
      ELSE [arrays |-> Append(written, Fresh(old \o vals, c)), arr |-> Len(arrays) + 1]

\* NewHelper leaves kvs nil.
NewHelper_prealloc ==    \* fault: room made in advance
  /\ kvArrays = << Fresh(<<>>, 8) >>
  /\ kvLoggers = << [arr |-> 1, depth |-> 0, alone |-> TRUE, want |-> <<>>] >>
NewHelper ==
  /\ kvArrays = <<>>
  /\ kvLoggers = << [arr |-> 0, depth |-> 0, alone |-> TRUE, want |-> <<>>] >>

SharedKvsInit ==
  /\ NewHelper
  /\ kvCalls = [g \in LogCallers |-> NoLogCall]
  /\ kvGarbled = {} /\ kvNext = 1
  /\ kvKind \in {"helper", "core"}

Derive(h, k) ==
  LET p == kvLoggers[h]
      n == Len(p.want)
      cap == CapOf(kvArrays, p.arr)
      u == PutInPlace(cap, n, k)
  IN  \E c \in Rooms(cap, n + k) :
        LET a == AppendTo(kvArrays, p.arr, n, kvNext, k, u, c)
        IN  /\ kvNext <= MaxAppends
            /\ kvNext' = kvNext + 1
            /\ kvArrays' = a.arrays
            /\ kvLoggers' = Append(kvLoggers,
                 [arr |-> a.arr, depth |-> p.depth + 1, alone |-> p.alone /\ u = 0,
                  want |-> p.want \o [i \in 1..k |-> kvNext]])
            /\ UNCHANGED <<kvCalls, kvGarbled, kvKind>>

\* Helper.With(args...)
HelperWith(h, k) == kvKind = "helper" /\ Derive(h, k)
\* Helper.WithDDOtelTrace: span and trace id with their keys
WithDDOtelTrace(h) == kvKind = "helper" /\ Derive(h, 4)
\* BaseCore.With(fields): clone keeps the slice, addFields appends to it.
CoreWith(h, k) == kvKind = "core" /\ Derive(h, k)

\* Debugf .. Fatalf: append(h.kvs, msgkey(format)), and the *w methods likewise.
LogBegin(g, h) ==
  LET p == kvLoggers[h]
      n == Len(p.want)
      cap == CapOf(kvArrays, p.arr)
  IN  \E c \in Rooms(cap, n + 1) :
        LET a == AppendTo(kvArrays, p.arr, n, kvNext, 1, PutInPlace(cap, n, 1), c)
        IN  /\ kvKind = "helper" /\ kvCalls[g] = NoLogCall /\ kvNext <= MaxAppends
            /\ kvNext' = kvNext + 1
            /\ kvArrays' = a.arrays
            /\ kvCalls' = [kvCalls EXCEPT ![g] =
                 [logger |-> h, arr |-> a.arr, want |-> Append(p.want, kvNext)]]
            /\ UNCHANGED <<kvLoggers, kvGarbled, kvKind>>

\* logger.Log reads the slice it was handed.
LogEnd(g) ==
  LET c == kvCalls[g]
  IN  /\ c # NoLogCall
      /\ kvCalls' = [kvCalls EXCEPT ![g] = NoLogCall]
      /\ kvGarbled' = IF Content(c.arr, Len(c.want)) = c.want THEN kvGarbled
                      ELSE kvGarbled \cup {c.logger}
      /\ UNCHANGED <<kvArrays, kvLoggers, kvNext, kvKind>>

SharedKvsNext ==
  \/ \E h \in DOMAIN kvLoggers :
       \/ WithDDOtelTrace(h) \/ \E k \in Widths : HelperWith(h, k) \/ CoreWith(h, k)
       \/ \E g \in LogCallers : LogBegin(g, h)
  \/ \E g \in LogCallers : LogEnd(g)

SharedKvsSpec == SharedKvsInit /\ [][SharedKvsNext]_kvVars

-----------------------------------------------------------------------------
HasOwnValues(p) == Content(p.arr, Len(p.want)) = p.want
IsFull(p) == Len(p.want) = CapOf(kvArrays, p.arr)

\* A logger keeps its values, whatever is derived from its relatives or logged
\* through them, when no With that led to it found room for a value in the
\* array of its parent; however many values they were given, the first two With
\* of a helper and the first of a core are such.  From there on append may find
\* room in a shared array, and siblings overwrite each other (helper.go With,
\* core.go addFields).
LoggersKept ==
  \A i \in DOMAIN kvLoggers :
    LET p == kvLoggers[i]
    IN  /\ p.alone => HasOwnValues(p)
        /\ p.depth <= (IF kvKind = "helper" THEN 2 ELSE 1) => p.alone

\* A helper that is alone and whose array is full logs its own values and message
\* even when goroutines log through it at once, and so does every helper no more
\* than one With deep; with room in its array it may log the message of another
\* goroutine (helper.go Infof and the others).
LogsKept ==
  \A h \in kvGarbled : LET p == kvLoggers[h] IN ~(p.alone /\ IsFull(p)) /\ p.depth > 1

(***************************************************************************)
(* Shallow loggers are safe to share: what they carry and what is logged   *)
(* through them is their own (helper.go With and Infof, core.go With).     *)
(***************************************************************************)
ShallowKept == LoggersKept /\ LogsKept
=============================================================================
