----------------------------- MODULE RpcPromise -----------------------------
(***************************************************************************)
(* What a wsrpc server promises the peers of its connections, with no      *)
(* goroutine, lock, free list or socket in sight.                          *)
(*                                                                         *)
(* A peer asks; the server answers a question it was asked at most once,   *)
(* in any order, under the question's own id.  A question whose id the     *)
(* peer did not send carries the id JSON null.  The answer is a result, an *)
(* error, or nothing but the empty result {}.                              *)
(***************************************************************************)
CONSTANTS
  Task,   \* the requests of all connections: <<connection, ordinal>>
  Ids     \* the request ids peers use, JSON null among them

VARIABLES
  question,  \* question[t]: <<id>> once the server has read request t
  answer     \* answer[t]: <<reply>> once a reply to t is on the wire

vars == <<question, answer>>

Bodies == {"result", "void", "error"}
Reply  == [id : Ids, body : Bodies]

TypeOK ==
  /\ question \in [Task -> {<<>>} \cup {<<i>> : i \in Ids}]
  /\ answer   \in [Task -> {<<>>} \cup {<<r>> : r \in Reply}]

Init ==
  /\ question = [t \in Task |-> <<>>]
  /\ answer   = [t \in Task |-> <<>>]

Ask(t, i) ==
  /\ question[t] = <<>>
  /\ question' = [question EXCEPT ![t] = <<i>>]
  /\ UNCHANGED answer

Answer(t, b) ==
  /\ question[t] # <<>>
  /\ answer[t] = <<>>
  /\ answer' = [answer EXCEPT ![t] = <<[id |-> question[t][1], body |-> b]>>]
  /\ UNCHANGED question

Next == \E t \in Task :
  \/ \E i \in Ids : Ask(t, i)
  \/ \E b \in Bodies : Answer(t, b)

Spec == Init /\ [][Next]_vars
=============================================================================
