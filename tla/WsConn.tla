------------------------------- MODULE WsConn -------------------------------
(***************************************************************************)
(* The close handlers of one wsrpc connection (src/wsrpc/conn.go).  The    *)
(* serve goroutine terminates the connection once; any goroutine may       *)
(* register a handler with OnClose before, while or after it does.         *)
(*                                                                         *)
(* OnClose works under Conn.mu; ternimating sets `closed` under it but     *)
(* walks and resets the list of handlers without it.                       *)
(***************************************************************************)
EXTENDS Integers, Sequences

CONSTANT Handlers   \* the handlers the application registers, each once

VARIABLES
  closed,    \* Conn.closed
  list,      \* Conn.closeHandlers
  term,      \* where ternimating is
  snap,      \* the list its range statement walks, fixed when it starts
  idx,       \* the next handler of snap
  reg,       \* reg[h]: how far OnClose(h) is
  spawned,   \* handlers OnClose has started with go and that have not run yet
  ran,       \* history: ran[h] counts the runs of h
  early      \* history: the handlers registered before the termination began

connVars == <<closed, list, term, snap, idx, reg, spawned, ran, early>>

ConnTypeOK ==
  /\ closed \in BOOLEAN
  /\ list \in Seq(Handlers) /\ snap \in Seq(Handlers)
  /\ idx \in Nat \ {0}
  /\ term \in {"serving", "range", "run", "done"}
  /\ reg \in [Handlers -> {"none", "append", "done"}]
  /\ spawned \subseteq Handlers /\ early \subseteq Handlers
  /\ ran \in [Handlers -> Nat]

ConnInit ==
  /\ closed = FALSE /\ list = <<>> /\ term = "serving" /\ snap = <<>> /\ idx = 1
  /\ reg = [h \in Handlers |-> "none"]
  /\ spawned = {} /\ early = {}
  /\ ran = [h \in Handlers |-> 0]

\* Conn.mu is held by the OnClose that is about to append.
MuFree == \A h \in Handlers : reg[h] # "append"

\* OnClose up to the append: after the termination the handler is also started.
StartIfClosed_never(h) == UNCHANGED spawned     \* fault: the handler is lost
StartIfClosed_always(h) == spawned' = spawned \cup {h}    \* fault: closed is not looked at
StartIfClosed(h) == spawned' = IF closed THEN spawned \cup {h} ELSE spawned

OnCloseBegin(h) ==
  /\ reg[h] = "none" /\ MuFree
  /\ reg' = [reg EXCEPT ![h] = "append"]
  /\ StartIfClosed(h)
  /\ UNCHANGED <<closed, list, term, snap, idx, ran, early>>

OnCloseEnd(h) ==
  /\ reg[h] = "append"
  /\ reg'   = [reg EXCEPT ![h] = "done"]
  /\ list'  = Append(list, h)
  /\ early' = IF closed THEN early ELSE early \cup {h}
  /\ UNCHANGED <<closed, term, snap, idx, spawned, ran>>

RunSpawned(h) ==
  /\ h \in spawned
  /\ spawned' = spawned \ {h}
  /\ ran' = [ran EXCEPT ![h] = @ + 1]
  /\ UNCHANGED <<closed, list, term, snap, idx, reg, early>>

\* ternimating: closed = true under mu
TermBegin ==
  /\ term = "serving" /\ MuFree
  /\ closed' = TRUE
  /\ term'   = "range"
  /\ UNCHANGED <<list, snap, idx, reg, spawned, ran, early>>

\* range reads the list without mu: an append under way may be seen or not.
TermRange ==
  /\ term = "range"
  /\ \E l \in {list} \cup {Append(list, h) : h \in {g \in Handlers : reg[g] = "append"}} :
       snap' = l
  /\ term' = "run"
  /\ UNCHANGED <<closed, list, idx, reg, spawned, ran, early>>

TermRun ==
  /\ term = "run" /\ idx <= Len(snap)
  /\ ran' = [ran EXCEPT ![snap[idx]] = @ + 1]
  /\ idx' = idx + 1
  /\ UNCHANGED <<closed, list, term, snap, reg, spawned, early>>

\* The list is reset; nobody reads it any more.
TermEnd ==
  /\ term = "run" /\ idx > Len(snap)
  /\ list' = <<>>
  /\ term' = "done"
  /\ UNCHANGED <<closed, snap, idx, reg, spawned, ran, early>>

ConnNext ==
  \/ \E h \in Handlers : OnCloseBegin(h) \/ OnCloseEnd(h) \/ RunSpawned(h)
  \/ TermBegin \/ TermRange \/ TermRun \/ TermEnd

ConnSpec == ConnInit /\ [][ConnNext]_connVars

(* A handler never runs before the connection terminates.  One that was    *)
(* registered before the termination runs at most once; one that is being  *)
(* registered while the termination begins may run twice (from the list    *)
(* and from OnClose), never more.                                          *)
HandlerRuns == \A h \in Handlers :
  /\ ran[h] > 0 => closed
  /\ h \in early => ran[h] <= 1
  /\ ran[h] <= 2
=============================================================================
