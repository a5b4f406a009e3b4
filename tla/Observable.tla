----------------------------- MODULE Observable -----------------------------
(***************************************************************************)
(* observable.Observable (src/observable): lists of callbacks by event.    *)
(* Trigger copies a list under the mutex and calls the callbacks outside   *)
(* it, so goroutines that trigger, register and remove interleave between  *)
(* the calls.  The arguments of the callbacks are left out.                *)
(***************************************************************************)
EXTENDS Integers, Sequences, SequencesExt

CONSTANTS
  Triggerers,     \* goroutines that call Trigger
  Events,         \* event names other than "*"
  Callables,     \* functions that are registered
  MaxCallbacks,   \* bound: callbacks registered
  MaxTriggers     \* bound: calls of Trigger

ASSUME ObservableAssumption ==
  /\ "*" \notin Events
  /\ MaxCallbacks \in Nat /\ MaxTriggers \in Nat

VARIABLES
  obLists,    \* callbacks: the identities of the callbacks of each event, in order
  obInfo,     \* the callback structs made, by identity: event, fn, isUnique
  obCalled,   \* the callbacks with wasCalled
  obCalls,    \* obCalls[i]: calls of the unique callback i (up to 2)
  obGo,       \* obGo[g]: the events still to dispatch, the snapshot still to
              \* call, and the unique callback to remove, if any
  obPanic,    \* remove sliced out of range
  obTriggers  \* calls of Trigger

obVars == <<obLists, obInfo, obCalled, obCalls, obGo, obPanic, obTriggers>>

All == "*"
Names == Events \cup {All}
Ids == 1..MaxCallbacks

ObservableTypeOK ==
  /\ \A e \in Names : obLists[e] \in Seq(1..Len(obInfo))
  /\ \A i \in DOMAIN obInfo :
       obInfo[i] \in [event : Names, fn : Callables, unique : BOOLEAN]
  /\ obCalled \subseteq Ids /\ obCalls \in [Ids -> 0..2]
  /\ \A g \in Triggerers : obGo[g].todo \in Seq(Names) /\ obGo[g].cbs \in Seq(Ids)
                           /\ obGo[g].remove \in Ids \cup {0}
  /\ obPanic \in BOOLEAN /\ obTriggers \in 0..MaxTriggers

ObservableInit ==
  /\ obLists = [e \in Names |-> <<>>] /\ obInfo = <<>>
  /\ obCalled = {} /\ obCalls = [i \in Ids |-> 0]
  /\ obGo = [g \in Triggerers |-> [todo |-> <<>>, cbs |-> <<>>, remove |-> 0]]
  /\ obPanic = FALSE /\ obTriggers = 0

\* The elements of a sequence that are not in a set, in their order.
Omit(s, set) ==
  LET kept[i \in 0..Len(s)] ==
        IF i = 0 THEN <<>>
        ELSE IF s[i] \in set THEN kept[i - 1] ELSE Append(kept[i - 1], s[i])
  IN kept[Len(s)]

\* addCallback, for one event of On or Once; an event string that names several
\* registers one callback struct for each.
Register(e, fn, unique) ==
  /\ ~obPanic /\ Len(obInfo) < MaxCallbacks
  /\ obInfo' = Append(obInfo, [event |-> e, fn |-> fn, unique |-> unique])
  /\ obLists' = [obLists EXCEPT ![e] = Append(@, Len(obInfo'))]
  /\ UNCHANGED <<obCalled, obCalls, obGo, obPanic, obTriggers>>

\* remove: the loop ranges over the slice as it was, while append shifts the
\* elements after i to the left in the same array and shortens the list.  Its
\* state after each element: the array, the length, out of range.
Spliced_after(r, i, n) ==    \* fault: append(cbs[:i], cbs[i:]...)
  [r EXCEPT !.len = @ - 1]
Spliced(r, i, n) ==
  [r EXCEPT !.arr = [j \in 1..n |-> IF i <= j /\ j < r.len THEN r.arr[j + 1] ELSE r.arr[j]],
            !.len = @ - 1]

Considered(r, i, n, fn) ==
  IF r.bad \/ obInfo[r.arr[i]].fn # fn THEN r
  ELSE IF i > r.len THEN [r EXCEPT !.bad = TRUE]
  ELSE Spliced(r, i, n)

Removed(cbs, fn) ==
  LET n == Len(cbs)
      after[i \in 0..n] ==
        IF i = 0 THEN [arr |-> cbs, len |-> n, bad |-> FALSE]
        ELSE Considered(after[i - 1], i, n, fn)
  IN after[n]

\* removeEvent(e, fn), under the mutex; the panic leaves it unlocked.
RemoveEvent(e, fn) ==
  LET r == Removed(obLists[e], fn)
  IN /\ obPanic' = r.bad
     /\ obLists' = IF r.bad THEN obLists
                   ELSE [obLists EXCEPT ![e] = SubSeq(r.arr, 1, r.len)]

OffFunction(e, fn) ==
  /\ ~obPanic /\ RemoveEvent(e, fn)
  /\ UNCHANGED <<obInfo, obCalled, obCalls, obGo, obTriggers>>

\* cleanEvent: one event, or with "*" every list.
Off(e) ==
  /\ ~obPanic
  /\ obLists' = [n \in Names |-> IF e \in {n, All} THEN <<>> ELSE obLists[n]]
  /\ UNCHANGED <<obInfo, obCalled, obCalls, obGo, obPanic, obTriggers>>

\* Trigger(event): the events it names, and then "*" unless it is "*" itself.
Trigger(g, e) ==
  /\ ~obPanic /\ obTriggers < MaxTriggers
  /\ obGo[g] = [todo |-> <<>>, cbs |-> <<>>, remove |-> 0]
  /\ obTriggers' = obTriggers + 1
  /\ obGo' = [obGo EXCEPT ![g].todo = IF e = All THEN <<All>> ELSE <<e, All>>]
  /\ UNCHANGED <<obLists, obInfo, obCalled, obCalls, obPanic>>

Claimed_removed(i) == FALSE    \* fault: wasCalled is not read, removal is relied on
Claimed(i) == obInfo[i].unique /\ i \in obCalled

\* getCallbacks: a copy of the list, without the unique ones already claimed; the
\* unique ones it takes are claimed under the same lock.
Snapshot(g) ==
  /\ ~obPanic /\ obGo[g].todo # <<>> /\ obGo[g].cbs = <<>> /\ obGo[g].remove = 0
  /\ LET cbs == Omit(obLists[Head(obGo[g].todo)], {i \in DOMAIN obInfo : Claimed(i)})
     IN /\ obGo' = [obGo EXCEPT ![g].cbs = cbs, ![g].todo = Tail(@)]
        /\ obCalled' = obCalled \cup {i \in ToSet(cbs) : obInfo[i].unique}
  /\ UNCHANGED <<obLists, obInfo, obCalls, obPanic, obTriggers>>

AfterCall_kept(i) == 0    \* fault: the callback is not removed
AfterCall(i) == IF obInfo[i].unique /\ i \in obCalled THEN i ELSE 0

\* cb.fn.Call(args), outside the mutex.
CallNext(g) ==
  /\ ~obPanic /\ obGo[g].cbs # <<>> /\ obGo[g].remove = 0
  /\ LET i == Head(obGo[g].cbs)
     IN /\ obCalls' = IF obInfo[i].unique /\ obCalls[i] < 2
                      THEN [obCalls EXCEPT ![i] = @ + 1] ELSE obCalls
        /\ obGo' = [obGo EXCEPT ![g].cbs = Tail(@), ![g].remove = AfterCall(i)]
  /\ UNCHANGED <<obLists, obInfo, obCalled, obPanic, obTriggers>>

RemoveOnce(g) ==
  /\ ~obPanic /\ obGo[g].remove # 0
  /\ RemoveEvent(obInfo[obGo[g].remove].event, obInfo[obGo[g].remove].fn)
  /\ obGo' = [obGo EXCEPT ![g].remove = 0]
  /\ UNCHANGED <<obInfo, obCalled, obCalls, obTriggers>>

Dispatch(g) == Snapshot(g) \/ CallNext(g) \/ RemoveOnce(g)

ObservableNext ==
  \/ \E e \in Names, fn \in Callables, unique \in BOOLEAN : Register(e, fn, unique)
  \/ \E e \in Events, fn \in Callables : OffFunction(e, fn)
  \/ \E e \in Names : Off(e)
  \/ \E g \in Triggerers : Dispatch(g) \/ \E e \in Names : Trigger(g, e)

\* A goroutine in Trigger goes on; whether anyone calls the rest is open.
ObservableFairness == \A g \in Triggerers : WF_obVars(Dispatch(g))

ObservableSpec == ObservableInit /\ [][ObservableNext]_obVars /\ ObservableFairness

(***************************************************************************)
(* A callback registered with Once runs at most once, however many         *)
(* goroutines trigger its event while the first call is still running      *)
(* (wasCalled, helpers.go:69-74).                                          *)
(***************************************************************************)
OnceAtMostOnce == \A i \in Ids : obCalls[i] <= 1

NoDuplicates(e) == \A i, j \in DOMAIN obLists[e] :
  obInfo[obLists[e][i]].fn = obInfo[obLists[e][j]].fn => i = j

(***************************************************************************)
(* Of a list that holds each function once, the loop of remove             *)
(* (helpers.go:36-50), which shortens the list it walks, takes out at most *)
(* one callback, keeps the others in their order, and does not panic.      *)
(***************************************************************************)
RemovalExact == [][\A g \in Triggerers, e \in Names :
  (NoDuplicates(e) /\ obGo[g].remove # 0 /\ obGo'[g].remove = 0
     /\ obInfo[obGo[g].remove].event = e) =>
    /\ ~obPanic'
    /\ obLists'[e] = Omit(obLists[e],
         {i \in DOMAIN obInfo : obInfo[i].fn = obInfo[obGo[g].remove].fn})]_obVars

(***************************************************************************)
(* Liveness: a Once callback that was claimed by a Trigger leaves its      *)
(* list, so the list does not grow with what was already called.           *)
(***************************************************************************)
OnceLeaves == \A i \in Ids :
  []<>(i \in obCalled => obPanic \/ \A e \in Names : ~Contains(obLists[e], i))
=============================================================================
