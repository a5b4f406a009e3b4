----------------------------- MODULE SqlQueries -----------------------------
(***************************************************************************)
(* What the queries of the sql package promise: the filter of a request    *)
(* and the pages of a listing.  They share no state.                       *)
(***************************************************************************)
EXTENDS SqlFilter, SqlPages

(***************************************************************************)
(* Filters mean their calls, and pages add up to the listing whose rows    *)
(* nobody changes (sql.go ArgsFilter and PageQuery).                       *)
(***************************************************************************)
SqlFaithful == FilterMeansItsCalls /\ PagesPartition
=============================================================================
