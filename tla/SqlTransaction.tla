--------------------------- MODULE SqlTransaction ---------------------------
(***************************************************************************)
(* DataBase.TransactionCtx (src/sql/db.go): calls run a function in a      *)
(* transaction that holds one of MaxOpenConns connections.  gorm and       *)
(* database/sql are external: BeginTx waits for a connection or for its    *)
(* context; a goroutine of database/sql rolls a transaction back some time *)
(* after its context has ended; Commit of such a one answers an error and  *)
(* does nothing; a Begin that failed leaves a transaction whose Commit     *)
(* answers an error; Commit and Rollback give the connection back.         *)
(***************************************************************************)
EXTENDS Integers, Sequences, FiniteSets

CONSTANTS
  MaxOpenConns,   \* Config.MaxOpenConns
  MaxCalls        \* bound: calls, each of a goroutine of its own

ASSUME SqlAssumption == MaxOpenConns \in Nat \ {0} /\ MaxCalls \in Nat

VARIABLES
  txTimeout,   \* Config.TransTimeout is not zero
  txCalls      \* the calls of TransactionCtx so far

txVars == <<txTimeout, txCalls>>

\* A call: where it is, begin (waits), run (in f), commit or returned; is its
\* transaction under the timeout, and has that context ended; did f panic; what
\* became of the transaction, failed when Begin did, unknown when the answer to
\* its COMMIT was an error; the error TransactionCtx returned.
TxStates == {"none", "open", "failed", "rolledback", "committed", "unknown"}
TxCalls == [step : {"begin", "run", "commit", "returned"}, timed : BOOLEAN, ended : BOOLEAN,
            panicked : BOOLEAN, state : TxStates, err : BOOLEAN]

SqlTypeOK ==
  /\ txTimeout \in BOOLEAN
  /\ txCalls \in Seq(TxCalls) /\ Len(txCalls) <= MaxCalls

SqlInit == txTimeout \in BOOLEAN /\ txCalls = <<>>

OpenTx == {i \in DOMAIN txCalls : txCalls[i].state = "open"}

\* A caller without a deadline gets the configured timeout; any other begins with
\* db.Begin(), on no context at all, not even its own.
CallTransaction ==
  /\ Len(txCalls) < MaxCalls
  /\ \E timed \in {txTimeout, FALSE} :
       txCalls' = Append(txCalls, [step |-> "begin", timed |-> timed, ended |-> FALSE,
                                   panicked |-> FALSE, state |-> "none", err |-> FALSE])
  /\ UNCHANGED txTimeout

\* Call i goes on from this step as c.
GoesOn(i, step, c) ==
  txCalls[i].step = step /\ txCalls' = [txCalls EXCEPT ![i] = c] /\ UNCHANGED txTimeout

\* BeginTx got a connection.
BeginTx(i) ==
  /\ Cardinality(OpenTx) < MaxOpenConns
  /\ GoesOn(i, "begin", [txCalls[i] EXCEPT !.step = "run", !.state = "open"])

\* It failed: the connection it got is bad, or the timeout ended the wait for one.
\* Nobody looks at tx.Error: f is called.
BeginFails(i) ==
  /\ txCalls[i].timed \/ Cardinality(OpenTx) < MaxOpenConns
  /\ GoesOn(i, "begin", [txCalls[i] EXCEPT !.step = "run", !.state = "failed"])

\* The timeout passes while f runs or before the commit.
TimeoutPasses(i) ==
  LET c == txCalls[i]
  IN /\ c.timed /\ c.step \in {"run", "commit"} /\ ~c.ended
     /\ GoesOn(i, c.step, [c EXCEPT !.ended = TRUE])

\* database/sql's goroutine sees the end of the context.
RollsBack(i) ==
  LET c == txCalls[i]
  IN /\ c.ended /\ c.state = "open"
     /\ GoesOn(i, c.step, [c EXCEPT !.state = "rolledback"])

FunctionOK(i) == GoesOn(i, "run", [txCalls[i] EXCEPT !.step = "commit"])

\* The return of TransactionCtx: the deferred cancel ends a context it made.
ComesBack(c, state, err) ==
  [c EXCEPT !.step = "returned", !.ended = c.timed, !.state = state, !.err = err]

FunctionFails_norollback(i) ==    \* fault: the error is returned without Rollback
  GoesOn(i, "run", ComesBack(txCalls[i], txCalls[i].state, TRUE))

\* f returned an error: Rollback.
FunctionFails(i) ==
  LET state == txCalls[i].state
  IN  GoesOn(i, "run", ComesBack(txCalls[i], IF state = "open" THEN "rolledback" ELSE state, TRUE))

\* f panicked: recover makes an error of it and nothing rolls back.  Only the
\* timeout's cancel may do so later; without it the transaction stays open and
\* its connection is never given back.
FunctionPanics(i) ==
  GoesOn(i, "run",
         [ComesBack(txCalls[i], txCalls[i].state, TRUE) EXCEPT !.panicked = TRUE])

\* tx.Commit(): of an open transaction it commits or answers an error, which may
\* be the answer that was lost; of any other, or under an ended context, it fails.
Commit(i) ==
  LET c == txCalls[i]
  IN  IF c.state = "open" /\ ~c.ended
      THEN \E state \in {"committed", "unknown"} :
             GoesOn(i, "commit", ComesBack(c, state, state = "unknown"))
      ELSE GoesOn(i, "commit", ComesBack(c, c.state, TRUE))

FunctionEnds(i) == FunctionOK(i) \/ FunctionFails(i) \/ FunctionPanics(i)

SqlNext ==
  \/ CallTransaction
  \/ \E i \in DOMAIN txCalls :
       \/ BeginTx(i) \/ BeginFails(i) \/ TimeoutPasses(i) \/ RollsBack(i)
       \/ FunctionEnds(i) \/ Commit(i)

\* A wait for a connection that can be had or has a timeout ends; f ends; Commit
\* answers; the goroutine of database/sql runs.
SqlFairness == \A i \in 1..MaxCalls :
  /\ WF_txVars(i \in DOMAIN txCalls /\ (BeginTx(i) \/ BeginFails(i)))
  /\ WF_txVars(i \in DOMAIN txCalls /\ FunctionEnds(i))
  /\ WF_txVars(i \in DOMAIN txCalls /\ Commit(i))
  /\ WF_txVars(i \in DOMAIN txCalls /\ RollsBack(i))

SqlSpec == SqlInit /\ [][SqlNext]_txVars /\ SqlFairness

-----------------------------------------------------------------------------
\* TransactionCtx returns nil exactly when it knows the transaction committed:
\* never after a panic of f, a failed Begin or a timeout (db.go:198-213).  An
\* error does not say that nothing happened: COMMIT may have taken effect.
NilMeansCommitted == \A i \in DOMAIN txCalls :
  txCalls[i].step = "returned" => (~txCalls[i].err <=> txCalls[i].state = "committed")

\* A transaction whose call has returned is open only while database/sql has yet
\* to see that its context ended, or after a panic of f in a call that has no
\* timeout, and then for ever; connections are taken by open ones alone.
ConnectionReturned ==
  /\ \A i \in DOMAIN txCalls : txCalls[i].step = "returned" /\ txCalls[i].state = "open" =>
       IF txCalls[i].timed THEN txCalls[i].ended ELSE txCalls[i].panicked
  /\ Cardinality(OpenTx) <= MaxOpenConns

(***************************************************************************)
(* A call that has returned left its transaction settled, or where its     *)
(* context will settle it, unless f panicked without a timeout: nil says   *)
(* committed, and a connection stays taken by no other call                *)
(* (TransactionCtx, db.go:186-213).                                        *)
(***************************************************************************)
TransactionsSettled == NilMeansCommitted /\ ConnectionReturned

(***************************************************************************)
(* Liveness: a call under the configured timeout returns and its           *)
(* transaction does not stay open, even when panics of other calls have    *)
(* taken every connection for ever.                                        *)
(***************************************************************************)
TimedCallsEnd == \A i \in 1..MaxCalls :
  []<>(i \in DOMAIN txCalls /\ txCalls[i].timed =>
         txCalls[i].step = "returned" /\ txCalls[i].state # "open")
=============================================================================
