------------------------------ MODULE SqlPages ------------------------------
(***************************************************************************)
(* Opening a database (sql/db.go) and reading it page by page (sql/sql.go):*)
(* PageQuery counts and then reads one page, and other clients may change  *)
(* the table in between.  gorm is external: its Open closes the pool when  *)
(* the driver cannot be set up but not when the ping that follows fails; a *)
(* statement reads the table in one step or fails.                         *)
(***************************************************************************)
EXTENDS Integers, Sequences, SequencesExt

CONSTANTS MaxRows,    \* bounds the rows ever inserted
          MaxPages,   \* bounds the page index and size
          WordSize    \* an uint has this many values

ASSUME SqlPagesAssumption == MaxRows \in Nat /\ MaxPages \in Nat /\ WordSize \in Nat \ {0}
\* The rows a page leaves out are counted in an uint.
ASSUME OffsetsFit == MaxPages * MaxPages < WordSize

VARIABLES dbPool,  \* the pool of connections: "none", "open" or "closed"
          dbOpened,\* what Open returned
          sqRows,  \* the rows of the table in the order of the query
          sqNext,  \* the next row inserted
          sqPage,  \* the query under way: its page and count
          sqSeen,  \* rows of pages 1, 2, ... read since a change among them
          sqLast,  \* the last of these pages and its size
          sqGot    \* what the last query gave: rows, count or not found
openVars == <<dbPool, dbOpened>>
pageVars == <<sqRows, sqNext, sqPage, sqSeen, sqLast, sqGot>>

-----------------------------------------------------------------------------
\* Open: what it is asked for and where it fails.  A dialector in the options
\* goes with any Dialect, and NewGoqu refuses the one it does not know; only then
\* Open closes the pool it has.
Faults == {"none", "initialize", "ping", "logger", "pool"}

Open(dialect, given, fault) ==
  LET unsupported == dialect = "unknown" /\ ~given
      refused == dialect = "unknown"
  IN /\ dbOpened = "no"
     /\ dbOpened' = IF fault # "none" \/ refused THEN "error" ELSE "opened"
     /\ dbPool' = IF unsupported THEN "none"
                  ELSE IF fault = "initialize" THEN "closed"
                  ELSE IF fault # "none" THEN "open"
                  ELSE IF refused THEN "closed" ELSE "open"
     /\ UNCHANGED pageVars

-----------------------------------------------------------------------------
NoPage == [step |-> "idle", index |-> 0, size |-> 0, count |-> 0]
Running == dbOpened = "opened" /\ UNCHANGED openVars

\* Other clients of the database.  A change among the rows that were read, or
\* after a page that was not full, makes another listing of the table.
Changed(rows, place) ==
  /\ sqRows' = rows
  /\ IF place > Len(sqSeen) /\ Len(sqSeen) = sqLast.index * sqLast.size
     THEN UNCHANGED <<sqSeen, sqLast>>
     ELSE sqSeen' = <<>> /\ sqLast' = [index |-> 0, size |-> 0]

InsertRow == Running /\ sqNext <= MaxRows /\ sqNext' = sqNext + 1
  /\ \E place \in 1..(Len(sqRows) + 1) : Changed(InsertAt(sqRows, place, sqNext), place)
  /\ UNCHANGED <<sqPage, sqGot>>

DeleteRow == Running
  /\ \E place \in DOMAIN sqRows : Changed(RemoveAt(sqRows, place), place)
  /\ UNCHANGED <<sqNext, sqPage, sqGot>>

\* The counts a page query may go on with: QueryCount answers a failed count with 0
\* and no error, the estimate of explain may be any number.  Any other failure
\* ends the query before its page, as PageFails does.
QueryCount == {0, Len(sqRows)}
QueryCountWithExplain == 0..MaxRows

BeginPage(index, size, counts) == Running
  /\ sqPage.step = "idle"
  /\ \E count \in counts :
       sqPage' = [step |-> "page", index |-> index, size |-> size, count |-> count]
  /\ UNCHANGED <<sqRows, sqNext, sqSeen, sqLast, sqGot>>

PageQuery(index, size) == BeginPage(index, size, QueryCount)
PageQueryWithExplain(index, size) == BeginPage(index, size, QueryCountWithExplain)

\* uint((pageIndex - 1) * pageSize)
Offset_zeroBased(index, size) == (index * size) % WordSize
Offset(index, size) == ((index - 1) * size) % WordSize

\* goqu takes a limit of 0 for none.
Select(offset, limit) == SubSeq(sqRows, offset + 1, IF limit # 0 /\ offset + limit < Len(sqRows)
                                                    THEN offset + limit ELSE Len(sqRows))

\* The page, appended to what pages 1, 2, ... of the same size gave so far.
ReadPage == Running
  /\ sqPage.step = "page" /\ sqPage' = NoPage
  /\ LET rows == Select(Offset(sqPage.index, sqPage.size), sqPage.size) IN
     /\ sqGot' = [rows |-> rows, count |-> sqPage.count]
     /\ IF sqPage.index = 1
        THEN sqSeen' = rows /\ sqLast' = [index |-> 1, size |-> sqPage.size]
        ELSE IF sqLast.index # 0 /\ sqLast = [index |-> sqPage.index - 1, size |-> sqPage.size]
        THEN sqSeen' = sqSeen \o rows /\ sqLast' = [index |-> sqPage.index, size |-> sqPage.size]
        ELSE UNCHANGED <<sqSeen, sqLast>>
  /\ UNCHANGED <<sqRows, sqNext>>

\* ToSQL or the statement returned an error.
PageFails == Running
  /\ sqPage.step = "page" /\ sqPage' = NoPage
  /\ UNCHANGED <<sqRows, sqNext, sqSeen, sqLast, sqGot>>

\* Query, QueryAll, QueryPluck and QueryRows read all rows; QueryFirst at most
\* one, and an empty answer is ErrRecordNotFound, which gives no rows either.
Query == Running
  /\ sqPage.step = "idle"
  /\ \E limit \in {1, MaxRows} : sqGot' = [rows |-> Select(0, limit), count |-> 0]
  /\ UNCHANGED <<sqRows, sqNext, sqPage, sqSeen, sqLast>>

-----------------------------------------------------------------------------
SqlPagesTypeOK ==
  /\ dbPool \in {"none", "open", "closed"} /\ dbOpened \in {"no", "opened", "error"}
  /\ sqNext \in 1..(MaxRows + 1) /\ Len(sqRows) < sqNext
  /\ sqPage \in [step : {"idle", "page"}, index : 0..MaxPages, size : 0..MaxPages, count : 0..MaxRows]
  /\ sqLast \in [index : 0..MaxPages, size : 0..MaxPages]
  /\ sqGot.count \in 0..MaxRows /\ Len(sqGot.rows) <= MaxRows

SqlPagesInit ==
  /\ dbPool = "none" /\ dbOpened = "no"
  /\ sqRows = <<>> /\ sqNext = 1 /\ sqPage = NoPage
  /\ sqSeen = <<>> /\ sqLast = [index |-> 0, size |-> 0] /\ sqGot = [rows |-> <<>>, count |-> 0]

SqlPagesNext ==
  \/ \E dialect \in {"known", "unknown"}, given \in BOOLEAN, fault \in Faults : Open(dialect, given, fault)
  \/ InsertRow \/ DeleteRow
  \/ \E index, size \in 0..MaxPages : PageQuery(index, size) \/ PageQueryWithExplain(index, size)
  \/ ReadPage \/ PageFails \/ Query

SqlPagesSpec == SqlPagesInit /\ [][SqlPagesNext]_<<openVars, pageVars>>

-----------------------------------------------------------------------------
(***************************************************************************)
(* Pages 1, 2, ... of one size are the rows of the table, each once and in *)
(* order, and a page that is not full is the last, while others change     *)
(* only what is behind the pages read so far (PageQuery's offset,          *)
(* sql.go:186-188).  A change in front of it moves rows into a page that   *)
(* was read or out of one that was not.  A page of size 0 has all rows.    *)
(***************************************************************************)
PagesPartition == sqLast.size # 0 =>
  /\ IsPrefix(sqSeen, sqRows)
  /\ Len(sqSeen) = IF sqLast.index * sqLast.size < Len(sqRows)
                   THEN sqLast.index * sqLast.size ELSE Len(sqRows)
=============================================================================
