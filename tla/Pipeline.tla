------------------------------ MODULE Pipeline ------------------------------
(***************************************************************************)
(* What a goroutine that drains a queue has behind it, in hand and before  *)
(* it, as one line of numbered entries, oldest first: the state the        *)
(* properties of the queues of this project speak of.                      *)
(***************************************************************************)
EXTENDS Integers, Sequences, SequencesExt

\* hand is the entry being worked on, 0 for none.
Line(done, hand, queue) == done \o (IF hand = 0 THEN <<>> ELSE <<hand>>) \o queue

\* In order of their numbers, none twice.
Ascending(s) == \A i, j \in DOMAIN s : i < j => s[i] < s[j]

\* Any two entries of s stand in the same order in t.
InOrderOf(s, t) == \A i, j \in DOMAIN s :
  i < j => \E a, b \in DOMAIN t : a < b /\ s[i] = t[a] /\ s[j] = t[b]
=============================================================================
